---- MODULE Spec2Model ----
(***************************************************************************)
(* Model of the transport / streaming core of opencode-client-cpp:         *)
(*   - SSEParser::feed                       (src/src/transport.cpp)       *)
(*   - HttpTransport::Impl start_sse / stop_sse / run_sse                  *)
(*   - EventStream next / close and Client::subscribe_events               *)
(*   - Client::send_message_streaming                                      *)
(* Byte strings are sequences of one-character strings.                    *)
(***************************************************************************)
EXTENDS Integers, Sequences, FiniteSets, TLC

VARIABLES
    \* ---- SSEParser (one parser instance and the bytes of its connection)
    input,            \* the whole byte string the connection will carry
    fed,              \* number of bytes of input already passed to feed()
    buffer_,          \* SSEParser::buffer_
    current_event_,   \* SSEParser::current_event_
    emitted,          \* the records handed to on_event so far, in order
    splitMidLine,     \* some feed() call started with a non-empty buffer_
    \* ---- HttpTransport::Impl (one transport instance) and its connection
    sse_running_,     \* std::atomic<bool> sse_running_
    sse_connected_,   \* std::atomic<bool> sse_connected_
    sse_thread_,      \* the worker sse_thread_ refers to; 0: not joinable
    worker,           \* per started stream: the thread running run_sse
    nstreams,         \* number of start_sse calls that created a worker
    closeCalls,       \* per stream: invocations of its on_close
    errorCalls,       \* per stream: invocations of its on_error
    wire,             \* the records the server has still to send
    api,              \* the thread calling start_sse / stop_sse directly
    \* ---- EventStream::Impl and the threads using one EventStream
    transport,        \* whether Impl::transport is set
    mutex,            \* owner of Impl::mutex, or "free"
    closed,           \* Impl::closed
    events,           \* Impl::events
    error,            \* Impl::error
    consumer,         \* the thread calling next()
    closer,           \* the thread calling close() (or running ~EventStream)
    delivered,        \* the events next() has returned, in order
    pushed,           \* the events ever pushed to Impl::events, in order
    eos,              \* number of next() calls that returned the sentinel
    dropped,          \* the records on_record dropped (wire position and why)
    \* ---- Client::send_message_streaming (one call): StreamState and counters
    caller,           \* the thread inside send_message_streaming
    done,             \* StreamState::done
    connected,        \* StreamState::connected
    options,          \* which of on_part, on_complete, on_error the caller set
    unary,            \* outcome of send_message: "pending", "ok" or "failed"
    parts,            \* the invocations of on_part, in order
    completeCalls,    \* invocations of on_complete
    userErrors,       \* invocations of the caller's on_error, by origin
    \* ---- Server (one Server object), the Process it owns, spawn() and stop()
    opts,             \* ServerOptions: port and startup_timeout
    process,          \* the operating-system process and its output pipe
    spawning,         \* the locals of Server::spawn and how it ended
    server,           \* url_, hostname_, port_, process_ of the Server
    stopping,         \* the thread inside Server::stop, and what it did
    scope             \* a second Server object, and the lifetime of the first

parserVars == <<input, fed, buffer_, current_event_, emitted, splitMidLine>>

transportVars == <<sse_running_, sse_connected_, sse_thread_, worker, nstreams,
                   closeCalls, errorCalls>>

eventsVars == <<transport, mutex, closed, events, error, consumer, closer,
                delivered, pushed, eos, dropped>>

sendVars == <<caller, done, connected, options, unary, parts, completeCalls,
              userErrors>>

serverVars == <<opts, process, spawning, server, stopping, scope>>

vars == <<parserVars, transportVars, wire, api, eventsVars, sendVars, serverVars>>

-----------------------------------------------------------------------------
(* Bounds of the model *)

\* number of 100 ms polls a startup timeout lasts
MaxTimeoutPolls == 2

\* number of lines the server process prints
MaxOutput == 2

\* number of stop() calls on one Server
MaxStops == 2

\* self-assignments of the Server that are followed
MaxSelfAssigns == 1

\* number of lines an input byte string is built from
MaxLines == 3

\* number of start_sse calls on one transport
MaxStreams == 3

\* number of records one chunk can complete
MaxBatch == 2

\* number of records the server sends on a connection
MaxWire == 3

\* number of records the server sends while one message is being answered
MaxSendWire == 2

\* number of next() calls answered with the end-of-stream sentinel
MaxEos == 2

-----------------------------------------------------------------------------
(* Byte strings *)

LF == "\n"
CR == "\r"

DATA == <<"d", "a", "t", "a">>
EVENT == <<"e", "v", "e", "n", "t">>
ID == <<"i", "d">>
RETRY == <<"r", "e", "t", "r", "y">>

Digits == {"0", "1", "2", "3", "4", "5", "6", "7", "8", "9"}

DigitVal(c) ==
    CASE c = "0" -> 0 [] c = "1" -> 1 [] c = "2" -> 2 [] c = "3" -> 3
      [] c = "4" -> 4 [] c = "5" -> 5 [] c = "6" -> 6 [] c = "7" -> 7
      [] c = "8" -> 8 [] c = "9" -> 9

\* std::isspace in the "C" locale, over the characters the model uses
IsSpace(c) == c \in {" ", "\t", "\n", "\r"}

INT_MAX == 2147483647

\* std::string::find(ch, pos) with 1-based positions: 0 stands for npos
RECURSIVE FindFrom(_, _, _)
FindFrom(s, ch, pos) ==
    IF pos > Len(s) THEN 0
    ELSE IF s[pos] = ch THEN pos
    ELSE FindFrom(s, ch, pos + 1)

\* std::string::substr(pos) with a 1-based position
SubstrFrom(s, pos) == SubSeq(s, pos, Len(s))

PopBack(s) == SubSeq(s, 1, Len(s) - 1)

RECURSIVE SkipSpace(_, _)
SkipSpace(s, pos) ==
    IF pos <= Len(s) /\ IsSpace(s[pos]) THEN SkipSpace(s, pos + 1) ELSE pos

\* the digits std::stoi consumes from pos on, accumulated into acc;
\* -1 once the value leaves the range of int (std::out_of_range)
RECURSIVE StoiDigits(_, _, _, _)
StoiDigits(s, pos, acc, neg) ==
    IF pos > Len(s) \/ s[pos] \notin Digits THEN acc
    ELSE LET d == DigitVal(s[pos])
             \* acc * 10 + d > INT_MAX (+ 1 when negative), computed within int
             over == IF ~neg THEN acc > (INT_MAX - d) \div 10
                     ELSE IF d = 0 THEN acc > INT_MAX \div 10
                     ELSE acc > (INT_MAX - d + 1) \div 10
         IN  IF over THEN -1
             ELSE StoiDigits(s, pos + 1, acc * 10 + d, neg)

\* std::stoi(value): [ok |-> FALSE] when it throws (no digits, out of range),
\* otherwise the parsed integer; leading white space and a sign are skipped,
\* characters after the digits are ignored
Stoi(s) ==
    LET p0 == SkipSpace(s, 1)
        signed == p0 <= Len(s) /\ s[p0] \in {"+", "-"}
        neg == signed /\ s[p0] = "-"
        p1 == IF signed THEN p0 + 1 ELSE p0
    IN  IF p1 > Len(s) \/ s[p1] \notin Digits THEN [ok |-> FALSE, val |-> 0]
        ELSE LET m == StoiDigits(s, p1, 0, neg)
             IN  IF m = -1 THEN [ok |-> FALSE, val |-> 0]
                 ELSE [ok |-> TRUE, val |-> IF neg THEN 0 - m ELSE m]

-----------------------------------------------------------------------------
(* SSEParser *)

\* SSEEvent{}: the default-constructed record
EmptyEvent == [event |-> <<>>, data |-> <<>>, id |-> <<>>, retry |-> 0]

\* mutant: every blank line emits the pending record, set or not
DispatchLine_Always(cur, out) ==
    [cur |-> EmptyEvent, out |-> Append(out, cur)]

\* mutant: a blank line resets the pending record even when it emits nothing
DispatchLine_ResetsAlways(cur, out) ==
    IF cur.data # <<>> \/ cur.event # <<>>
    THEN LET d == IF cur.data # <<>> /\ cur.data[Len(cur.data)] = LF
                  THEN PopBack(cur.data) ELSE cur.data
         IN  [cur |-> EmptyEvent, out |-> Append(out, [cur EXCEPT !.data = d])]
    ELSE [cur |-> EmptyEvent, out |-> out]

\* the blank-line branch of feed(): dispatch the pending record, if any
DispatchLine(cur, out) ==
    IF cur.data # <<>> \/ cur.event # <<>>
    THEN LET d == IF cur.data # <<>> /\ cur.data[Len(cur.data)] = LF
                  THEN PopBack(cur.data) ELSE cur.data
         IN  [cur |-> EmptyEvent, out |-> Append(out, [cur EXCEPT !.data = d])]
    ELSE [cur |-> cur, out |-> out]

\* the "handle known fields" chain of feed()
ApplyField(cur, field, value) ==
    IF field = EVENT THEN [cur EXCEPT !.event = value]
    ELSE IF field = DATA
    THEN [cur EXCEPT !.data =
             (IF cur.data # <<>> THEN Append(cur.data, LF) ELSE cur.data) \o value]
    ELSE IF field = ID THEN [cur EXCEPT !.id = value]
    ELSE IF field = RETRY
    THEN LET r == Stoi(value)
         IN  IF r.ok THEN [cur EXCEPT !.retry = r.val] ELSE cur
    ELSE cur

\* mutant: a line that starts with a colon is taken as a data line
FieldLine_CommentAsData(cur, line) ==
    LET colon == FindFrom(line, ":", 1)
    IN  IF colon # 0
        THEN LET value_start == IF colon + 1 <= Len(line) /\ line[colon + 1] = " "
                                THEN colon + 2 ELSE colon + 1
             IN  ApplyField(cur, IF colon = 1 THEN DATA
                                 ELSE SubSeq(line, 1, colon - 1),
                            SubstrFrom(line, value_start))
        ELSE ApplyField(cur, line, <<>>)

\* the field-parsing part of feed() for a non-empty line
FieldLine(cur, line) ==
    LET colon == FindFrom(line, ":", 1)
    IN  IF colon = 1 THEN cur
        ELSE IF colon # 0
        THEN LET value_start == IF colon + 1 <= Len(line) /\ line[colon + 1] = " "
                                THEN colon + 2 ELSE colon + 1
             IN  ApplyField(cur, SubSeq(line, 1, colon - 1),
                            SubstrFrom(line, value_start))
        ELSE ApplyField(cur, line, <<>>)

\* mutant: a carriage return before the line feed is kept in the line
ProcessLine_KeepsCR(cur, out, raw) ==
    IF raw = <<>> THEN DispatchLine(cur, out)
    ELSE [cur |-> FieldLine(cur, raw), out |-> out]

\* one complete line (its terminating line feed removed) in feed()'s loop
ProcessLine(cur, out, raw) ==
    LET line == IF raw # <<>> /\ raw[Len(raw)] = CR THEN PopBack(raw) ELSE raw
    IN  IF line = <<>> THEN DispatchLine(cur, out)
        ELSE [cur |-> FieldLine(cur, line), out |-> out]

\* mutant: the bytes after the last line feed are thrown away
KeepRemainder_Dropped(buf, pos) == <<>>

\* what feed() leaves in buffer_ when no line feed is found from pos on
KeepRemainder(buf, pos) == SubstrFrom(buf, pos)

\* the while(true) loop of feed(), from position pos of the buffer
RECURSIVE FeedLoop(_, _, _, _)
FeedLoop(buf, pos, cur, out) ==
    LET line_end == FindFrom(buf, LF, pos)
    IN  IF line_end = 0
        THEN [buffer_ |-> KeepRemainder(buf, pos), current_event_ |-> cur,
              emitted |-> out]
        ELSE LET r == ProcessLine(cur, out, SubSeq(buf, pos, line_end - 1))
             IN  FeedLoop(buf, line_end + 1, r.cur, r.out)

\* SSEParser::feed(data, on_event) on a parser in state p; the records passed
\* to on_event are appended to p.emitted
Feed(p, data) == FeedLoop(p.buffer_ \o data, 1, p.current_event_, p.emitted)

FreshParser == [buffer_ |-> <<>>, current_event_ |-> EmptyEvent, emitted |-> <<>>]

-----------------------------------------------------------------------------
(* The byte strings fed to the parser: 1..MaxLines lines with bodies from     *)
(* LineBodies, all ended by LF or all by CR LF, except that the last line may *)
(* be left unterminated.                                                      *)

LineBodies ==
    { <<>>,
      DATA \o <<":", "a">>,
      DATA \o <<":">>,
      EVENT \o <<":", " ", "e">>,
      <<":", "c">>,
      ID \o <<":", "1">>,
      RETRY \o <<":", "7">>,
      RETRY \o <<":", "x">>,
      RETRY \o <<":", "8", "x">> }

Terminators == { <<LF>>, <<CR, LF>> }

RECURSIVE Flatten(_)
Flatten(ss) == IF ss = <<>> THEN <<>> ELSE Head(ss) \o Flatten(Tail(ss))

\* the inputs of n + 1 lines whose line terminator is term
InputsWith(n, term) ==
    { Flatten([i \in 1..n |-> ls[i] \o term]) \o last \o end :
        ls \in [1..n -> LineBodies], last \in LineBodies, end \in {term, <<>>} }

Inputs ==
    UNION { InputsWith(n, term) : n \in 0..(MaxLines - 1), term \in Terminators }

-----------------------------------------------------------------------------
(* HttpTransport::Impl: start_sse, stop_sse and the worker running run_sse    *)

Streams == 1..MaxStreams

\* a worker that does not exist yet
NoWorker == [pc |-> "unborn", result |-> "none", batch |-> <<>>, why |-> "none"]

\* Impl after construction: no stream, sse_thread_ not joinable
TransportIdle ==
    /\ sse_running_ = FALSE
    /\ sse_connected_ = FALSE
    /\ sse_thread_ = 0
    /\ worker = [i \in Streams |-> NoWorker]
    /\ nstreams = 0
    /\ closeCalls = [i \in Streams |-> 0]
    /\ errorCalls = [i \in Streams |-> 0]

\* a worker thread that has been created and has not returned from run_sse
Alive(i) == worker[i].pc \notin {"unborn", "done"}

\* stop_sse, first statement: sse_running_ = false
StopFlag == sse_running_' = FALSE

\* stop_sse: sse_thread_.joinable()
Joinable == sse_thread_ # 0

\* mutant: stop_sse returns without waiting for the worker
JoinReturns_NoJoin == TRUE

\* stop_sse: the caller leaves "if (joinable) join()" only when the thread
\* sse_thread_ refers to has finished
JoinReturns == Joinable => worker[sse_thread_].pc = "done"

\* start_sse after its stop_sse: sse_running_ = true and the new thread
SpawnWorker ==
    /\ sse_running_' = TRUE
    /\ nstreams' = nstreams + 1
    /\ sse_thread_' = nstreams + 1
    /\ worker' = [worker EXCEPT ![nstreams + 1] = [NoWorker EXCEPT !.pc = "spawned"]]

\* the variables no step of run_sse itself touches
outsideWorker == <<parserVars, api, eventsVars, sendVars, serverVars>>

\* run_sse up to the Get call: client set-up, parser, sse_connected_ = true
WorkerBegin(i) ==
    /\ worker[i].pc = "spawned"
    /\ sse_connected_' = TRUE
    /\ worker' = [worker EXCEPT ![i].pc = "get"]
    /\ UNCHANGED <<sse_running_, sse_thread_, nstreams, closeCalls, errorCalls,
                   wire, outsideWorker>>

\* the content receiver of Get: a chunk arrived that completes the next n
\* records of the wire.  With the stop flag set the receiver returns false and
\* Get ends with an error; otherwise parser.feed runs and calls on_event for
\* each record in turn.
ChunkArrives(i, n) ==
    /\ worker[i].pc = "get"
    /\ n <= Len(wire)
    /\ wire' = SubSeq(wire, n + 1, Len(wire))
    /\ IF ~sse_running_
       THEN worker' = [worker EXCEPT ![i].pc = "after_get", ![i].result = "err",
                                     ![i].why = "stopped"]
       ELSE worker' = [worker EXCEPT ![i].batch = SubSeq(wire, 1, n),
                          ![i].pc = IF n = 0 THEN "get" ELSE "on_event"]
    /\ UNCHANGED <<sse_running_, sse_connected_, sse_thread_, nstreams,
                   closeCalls, errorCalls, outsideWorker>>

\* Get returns without the receiver asking for it: the server closed the
\* response (ok = TRUE), or the connection failed or the read timed out
GetEnds(i, ok) ==
    /\ worker[i].pc = "get"
    /\ worker' = [worker EXCEPT ![i].pc = "after_get",
                                ![i].result = IF ok THEN "ok" ELSE "err",
                                ![i].why = IF ok THEN "server_closed" ELSE "failed"]
    /\ UNCHANGED <<sse_running_, sse_connected_, sse_thread_, nstreams,
                   closeCalls, errorCalls, wire, outsideWorker>>

\* mutant: a failed Get is reported even when a stop was requested
ReportsError_WhenStopped(i) == worker[i].result = "err"

\* whether run_sse reports the end of Get through on_error
ReportsError(i) == sse_running_ /\ worker[i].result = "err"

\* run_sse after Get: sse_connected_ = false, then on_error if the stream was
\* not stopped and Get failed, else straight to on_close
AfterGet(i) ==
    /\ worker[i].pc = "after_get"
    /\ sse_connected_' = FALSE
    /\ IF ReportsError(i)
       THEN /\ worker' = [worker EXCEPT ![i].pc = "on_error"]
            /\ errorCalls' = [errorCalls EXCEPT ![i] = @ + 1]
            /\ UNCHANGED closeCalls
       ELSE /\ worker' = [worker EXCEPT ![i].pc = "on_close"]
            /\ closeCalls' = [closeCalls EXCEPT ![i] = @ + 1]
            /\ UNCHANGED errorCalls
    /\ UNCHANGED <<sse_running_, sse_thread_, nstreams, wire, outsideWorker>>

\* on_event returned: feed goes on with the next record of the chunk, or the
\* receiver returns true and Get waits for the next chunk
EventReturned(i) ==
    worker' = [worker EXCEPT ![i].batch = Tail(@),
                  ![i].pc = IF Len(worker[i].batch) > 1 THEN "on_event" ELSE "get"]

\* mutant: run_sse returns after on_error without calling on_close
ErrorReturned_NoClose(i) ==
    /\ worker' = [worker EXCEPT ![i].pc = "done"]
    /\ UNCHANGED closeCalls

\* on_error returned: run_sse calls on_close
ErrorReturned(i) ==
    /\ worker' = [worker EXCEPT ![i].pc = "on_close"]
    /\ closeCalls' = [closeCalls EXCEPT ![i] = @ + 1]

\* on_close returned: run_sse returns and the thread ends
CloseReturned(i) == worker' = [worker EXCEPT ![i].pc = "done"]

-----------------------------------------------------------------------------
(* Server: the readiness patterns of Server::spawn, as functions of a line    *)

Upper == <<"A", "B", "C", "D", "E", "F", "G", "H", "I", "J", "K", "L", "M",
           "N", "O", "P", "Q", "R", "S", "T", "U", "V", "W", "X", "Y", "Z">>

Lower == <<"a", "b", "c", "d", "e", "f", "g", "h", "i", "j", "k", "l", "m",
           "n", "o", "p", "q", "r", "s", "t", "u", "v", "w", "x", "y", "z">>

\* std::regex::icase: characters are compared after case folding
ToLower(c) ==
    IF \E k \in 1..26 : Upper[k] = c
    THEN Lower[CHOOSE k \in 1..26 : Upper[k] = c]
    ELSE c

\* the literal word matches the line at pos (caseless for the icase pattern)
MatchAt(line, pos, word, icase) ==
    /\ pos >= 1
    /\ pos + Len(word) - 1 <= Len(line)
    /\ \A k \in 1..Len(word) :
          IF icase THEN ToLower(line[pos + k - 1]) = ToLower(word[k])
                   ELSE line[pos + k - 1] = word[k]

\* std::string::find(sub) != npos
Contains(line, sub) ==
    \E pos \in 1..(Len(line) + 1) : MatchAt(line, pos, sub, FALSE)

\* the end of the run of [^\s] characters that starts at pos
RECURSIVE SkipNonSpace(_, _)
SkipNonSpace(s, pos) ==
    IF pos <= Len(s) /\ ~IsSpace(s[pos]) THEN SkipNonSpace(s, pos + 1) ELSE pos

\* the end of the run of \d characters that starts at pos
RECURSIVE SkipDigits(_, _)
SkipDigits(s, pos) ==
    IF pos <= Len(s) /\ s[pos] \in Digits THEN SkipDigits(s, pos + 1) ELSE pos

\* the alternatives of url_pattern
Verbs == { <<"l", "i", "s", "t", "e", "n", "i", "n", "g">>,
           <<"r", "u", "n", "n", "i", "n", "g">>,
           <<"s", "t", "a", "r", "t", "e", "d">>,
           <<"b", "o", "u", "n", "d">> }

Preps == { <<"o", "n">>, <<"a", "t">> }

HTTP == <<"h", "t", "t", "p">>

SCHEME_SEP == <<":", "/", "/">>

\* url_pattern tried at one position of the line: the captured URL, or <<>>
\*   (?:listening|running|started|bound)\s+(?:on|at)\s+(https?://[^\s]+)
UrlPatternAt(line, pos) ==
    LET verbs == {v \in Verbs : MatchAt(line, pos, v, TRUE)}
    IN  IF verbs = {} THEN <<>>
        ELSE LET p1 == pos + Len(CHOOSE v \in verbs : TRUE)
                 p2 == SkipSpace(line, p1)
                 preps == {w \in Preps : MatchAt(line, p2, w, TRUE)}
                 p3 == p2 + 2
                 p4 == SkipSpace(line, p3)
                 p5 == IF MatchAt(line, p4 + 4, <<"s">>, TRUE) THEN p4 + 5
                       ELSE p4 + 4
                 p6 == p5 + 3
                 p7 == SkipNonSpace(line, p6)
             IN  IF /\ p2 > p1
                    /\ preps # {}
                    /\ p4 > p3
                    /\ MatchAt(line, p4, HTTP, TRUE)
                    /\ MatchAt(line, p5, SCHEME_SEP, TRUE)
                    /\ p7 > p6
                 THEN SubSeq(line, p4, p7 - 1)
                 ELSE <<>>

\* std::regex_search(line, match, url_pattern): match[1] of the leftmost
\* match, <<>> when the pattern is not found
RECURSIVE UrlSearch(_, _)
UrlSearch(line, pos) ==
    IF pos > Len(line) THEN <<>>
    ELSE LET m == UrlPatternAt(line, pos)
         IN  IF m # <<>> THEN m ELSE UrlSearch(line, pos + 1)

\* std::regex_search(detected_url, port_match, port_pattern) with
\* port_pattern :(\d+) : the digits of the leftmost colon that digits follow,
\* <<>> when there is none
RECURSIVE PortSearch(_, _)
PortSearch(url, pos) ==
    IF pos >= Len(url) THEN <<>>
    ELSE IF url[pos] = ":" /\ url[pos + 1] \in Digits
         THEN SubSeq(url, pos + 1, SkipDigits(url, pos + 1) - 1)
         ELSE PortSearch(url, pos + 1)

\* one decimal digit as a character
DigitChar(d) == CHOOSE c \in Digits : DigitVal(c) = d

\* std::to_string(n) for n >= 0
RECURSIVE to_string(_)
to_string(n) ==
    IF n < 10 THEN <<DigitChar(n)>>
    ELSE Append(to_string(n \div 10), DigitChar(n % 10))

\* the hostname spawn is asked to bind
Hostname == <<"1", "2", "7", ".", "0", ".", "0", ".", "1">>

\* "http://" + opts.hostname + ":" + std::to_string(opts.port)
DefaultUrl(port) == HTTP \o SCHEME_SEP \o Hostname \o <<":">> \o to_string(port)

\* the words of the second readiness rule
LISTEN == <<"l", "i", "s", "t", "e", "n">>

BOUND == <<"b", "o", "u", "n", "d">>

SERVER == <<"s", "e", "r", "v", "e", "r">>

\* the "simple port binding" test of spawn: the line holds ":<port>" and one
\* of listen, bound, server
PortBindingLine(line, port) ==
    /\ Contains(line, <<":">> \o to_string(port))
    /\ \/ Contains(line, LISTEN)
       \/ Contains(line, BOUND)
       \/ Contains(line, SERVER)

\* what one output line does to detected_url and detected_port:
\* ready says whether the readiness loop breaks, throws whether std::stoi
\* threw on the port digits
ReadLine(line, url, port, reqPort) ==
    LET m == UrlSearch(line, 1)
        digits == PortSearch(m, 1)
        n == Stoi(digits)
    IN  IF m # <<>>
        THEN [ready |-> TRUE, throws |-> digits # <<>> /\ ~n.ok, url |-> m,
              port |-> IF digits # <<>> /\ n.ok THEN n.val ELSE port]
        ELSE IF PortBindingLine(line, reqPort)
        THEN [ready |-> TRUE, throws |-> FALSE, url |-> DefaultUrl(reqPort),
              port |-> port]
        ELSE [ready |-> FALSE, throws |-> FALSE, url |-> url, port |-> port]

\* the lines the server process can print
OutputLine ==
    << <<"S", "e", "r", "v", "e", "r", " ", "l", "i", "s", "t", "e", "n", "i", "n", "g", " ", "o", "n", " ", "h", "t", "t", "p", ":", "/", "/", "1", "2", "7", ".", "0", ".", "0", ".", "1", ":", "5", "1", "2", "3", "4">>,
       <<"R", "U", "N", "N", "I", "N", "G", " ", "a", "t", " ", " ", "h", "t", "t", "p", "s", ":", "/", "/", "l", "o", "c", "a", "l", "h", "o", "s", "t", ":", "4", "0", "9", "6", "/">>,
       <<"l", "i", "s", "t", "e", "n", "i", "n", "g", " ", "o", "n", " ", "h", "t", "t", "p", ":", "/", "/", "[", ":", ":", "1", "]", ":", "5", "1", "2", "3", "4">>,
       <<"s", "t", "a", "r", "t", "i", "n", "g", " ", "u", "p">>,
       <<"s", "e", "r", "v", "e", "r", " ", ":", "4", "0", "9", "6", " ", "u", "p">>,
       <<"s", "t", "a", "r", "t", "e", "d", " ", "a", "t", " ", "h", "t", "t", "p", ":", "/", "/", "l", "o", "c", "a", "l", "h", "o", "s", "t">>,
       <<"b", "o", "u", "n", "d", " ", "o", "n", " ", "h", "t", "t", "p", ":", "/", "/", "h", ":", "9", "9", "9", "9", "9", "9", "9", "9", "9", "9", "9">> >>

-----------------------------------------------------------------------------
(* Server: the Process it owns, Server::spawn and Server::stop                *)

\* has_data(100) in spawn and sleep_for(100 ms) in stop, in milliseconds
PollMs == 100

\* the grace window of stop, in milliseconds: std::chrono::seconds(5)
GraceMs == 5000

\* the ports spawn can be asked for: 0 (assigned by the system) and the default
RequestedPorts == {0, 4096}

\* the exit codes of the server process
ExitCodes == {0, 1}

\* ServerOptions as far as spawn reads them after the process is started
ServerOptions ==
    [port : RequestedPorts,
     startup_timeout : {k * PollMs : k \in 0..MaxTimeoutPolls}]

\* what reading each line does, for each requested port, when no line has
\* matched before (detected_url still empty, detected_port the requested one)
LineEffect ==
    [id \in 1..Len(OutputLine) |->
        [p \in RequestedPorts |-> ReadLine(OutputLine[id], <<>>, p, p)]]

\* what the process prints: up to MaxOutput lines, by their index in OutputLine
Scripts ==
    UNION { [1..n -> 1..Len(OutputLine)] : n \in 0..MaxOutput }

\* Process after process->spawn(): running, nothing printed yet
StartedProcess(script) ==
    [state |-> "running", code |-> 0, script |-> script, pipe |-> <<>>,
     terminated |-> FALSE, killed |-> FALSE]

\* Process::is_running()
IsRunning == process.state = "running"

\* Process::terminate(): the graceful signal is sent
Terminate(p) == [p EXCEPT !.terminated = TRUE]

\* Process::kill(): the forced signal is sent
Kill(p) == [p EXCEPT !.killed = TRUE]

\* Process::wait() returns only once the process has exited
WaitReturns == process.state = "exited"

\* Server(): url_ and hostname_ empty, port_ = 0, no process
DefaultServer ==
    [url_ |-> <<>>, hostname_ |-> <<>>, port_ |-> 0, process_ |-> FALSE]

\* spawn right after process->spawn(): start_time taken, nothing read
SpawnStart(port) ==
    [pc |-> "loop", elapsed |-> 0, accumulated_output |-> <<>>,
     detected_url |-> <<>>, detected_port |-> port, matched |-> 0,
     result |-> "pending", exit_code |-> 0, output |-> <<>>]

\* the Server object of the model is alive and no call of its destructor or
\* of its move assignment is in progress; a second Server object, other, is
\* default-constructed
InScope == [other |-> DefaultServer, life |-> "alive", selfAssigns |-> 0]

\* no stop() call in progress; did lists what stop() calls did to the process
NotStopping == [pc |-> "idle", elapsed |-> 0, calls |-> 0, did |-> <<>>]

\* the server process prints its next line (what it prints after the
\* readiness loop of spawn has ended is never read, and is left out)
ProcPrints ==
    /\ IsRunning
    /\ spawning.pc = "loop"
    /\ process.script # <<>>
    /\ process' = [process EXCEPT !.script = Tail(@),
                                  !.pipe = Append(@, Head(process.script))]
    /\ UNCHANGED <<opts, spawning, server, stopping, scope, parserVars,
                   transportVars,
                   wire, api, eventsVars, sendVars>>

\* the server process exits, by itself or because of a signal
ProcExits(code) ==
    /\ IsRunning
    /\ process' = [process EXCEPT !.state = "exited", !.code = code]
    /\ UNCHANGED <<opts, spawning, server, stopping, scope, parserVars,
                   transportVars,
                   wire, api, eventsVars, sendVars>>

\* mutant: the startup timeout is never reached
TimedOut_Never(elapsed) == FALSE

\* spawn: "if (elapsed >= opts.startup_timeout)"
TimedOut(elapsed) == elapsed >= opts.startup_timeout

\* one pass of the readiness loop of spawn.  The loop ends when the process
\* is not running; it throws the timeout error, after kill(), once the
\* timeout has elapsed; it reads a line when has_data(100) finds one, which
\* takes d milliseconds, and otherwise has waited the whole 100 ms.
SpawnLoop(d) ==
    /\ spawning.pc = "loop"
    /\ IF ~IsRunning
       THEN /\ d = 0
            /\ spawning' = [spawning EXCEPT !.pc = "after_loop"]
            /\ UNCHANGED process
       ELSE IF TimedOut(spawning.elapsed)
       THEN /\ d = 0
            /\ process' = Kill(process)
            /\ spawning' = [spawning EXCEPT !.pc = "thrown",
                               !.result = "startup_timeout",
                               !.output = spawning.accumulated_output]
       ELSE IF process.pipe # <<>>
       THEN LET id == Head(process.pipe)
                r == LineEffect[id][opts.port]
            IN  /\ process' = [process EXCEPT !.pipe = Tail(@)]
                /\ spawning' = [spawning EXCEPT
                      !.accumulated_output = Append(@, id),
                      !.elapsed = @ + d,
                      !.detected_url = IF r.ready THEN r.url ELSE @,
                      !.detected_port = IF r.ready THEN r.port ELSE @,
                      !.matched = IF r.ready THEN id ELSE @,
                      !.result = IF r.throws THEN "stoi_exception" ELSE @,
                      !.pc = IF r.throws THEN "thrown"
                             ELSE IF r.ready THEN "after_loop" ELSE "loop"]
       ELSE /\ d = PollMs
            /\ spawning' = [spawning EXCEPT !.elapsed = @ + d]
            /\ UNCHANGED process
    /\ UNCHANGED <<opts, server, stopping, scope, parserVars,
                   transportVars, wire,
                   api, eventsVars, sendVars>>

\* mutant: the check for a process that died during startup is left out
DiedDuringStartup_Unchecked == FALSE

\* spawn after the loop: "if (!process->is_running())"
DiedDuringStartup == ~IsRunning

\* spawn after the loop: the process-exited error with the code wait()
\* returned, or the Server with the detected (or constructed) address
SpawnEnd ==
    /\ spawning.pc = "after_loop"
    /\ IF DiedDuringStartup
       THEN /\ WaitReturns
            /\ spawning' = [spawning EXCEPT !.pc = "thrown",
                               !.result = "process_exited",
                               !.exit_code = process.code,
                               !.output = spawning.accumulated_output]
            /\ UNCHANGED server
       ELSE /\ spawning' = [spawning EXCEPT !.pc = "returned",
                                            !.result = "server"]
            /\ server' = [url_ |-> IF spawning.detected_url = <<>>
                                   THEN DefaultUrl(opts.port)
                                   ELSE spawning.detected_url,
                          hostname_ |-> Hostname,
                          port_ |-> spawning.detected_port,
                          process_ |-> TRUE]
    /\ UNCHANGED <<opts, process, stopping, scope, parserVars,
                   transportVars, wire,
                   api, eventsVars, sendVars>>

\* mutant: stop() signals whatever process the Server owns, running or not
StopsProcess_IfOwned == server.process_

\* stop: "if (process_ && process_->is_running())"
StopsProcess == server.process_ /\ IsRunning

\* stop() is called: nothing to do, or terminate() and the start of the wait
StopCall ==
    /\ spawning.pc \in {"returned", "thrown"}
    /\ scope.life = "alive"
    /\ stopping.pc = "idle"
    /\ stopping.calls < MaxStops
    /\ IF StopsProcess
       THEN /\ process' = Terminate(process)
            /\ stopping' = [stopping EXCEPT !.pc = "poll", !.elapsed = 0,
                                            !.did = Append(@, "terminate")]
       ELSE /\ stopping' = [stopping EXCEPT !.calls = @ + 1]
            /\ UNCHANGED process
    /\ UNCHANGED <<opts, spawning, server, scope, parserVars,
                   transportVars, wire,
                   api, eventsVars, sendVars>>

\* mutant: the force kill does not wait for the grace window
GraceOver_AtOnce(elapsed) == elapsed >= 0

\* stop: "if (elapsed > std::chrono::seconds(5))"
GraceOver(elapsed) == elapsed > GraceMs

\* one pass of the loop of stop: it ends when the process is not running,
\* kills and ends once the grace window is over, and otherwise sleeps d
\* milliseconds: 100, or more when the thread resumes late
StopPoll(d) ==
    /\ stopping.pc = "poll"
    /\ IF ~IsRunning
       THEN /\ d = PollMs
            /\ stopping' = [stopping EXCEPT !.pc = "reap"]
            /\ UNCHANGED process
       ELSE IF GraceOver(stopping.elapsed)
       THEN /\ d = PollMs
            /\ process' = Kill(process)
            /\ stopping' = [stopping EXCEPT !.pc = "reap",
                                            !.did = Append(@, "kill")]
       ELSE /\ stopping' = [stopping EXCEPT !.elapsed = @ + d]
            /\ UNCHANGED process
    /\ UNCHANGED <<opts, spawning, server, scope, parserVars,
                   transportVars, wire,
                   api, eventsVars, sendVars>>

\* stop: process_->wait() returned; stop() returns
StopReap ==
    /\ stopping.pc = "reap"
    /\ WaitReturns
    /\ stopping' = [stopping EXCEPT !.pc = "idle", !.calls = @ + 1,
                                    !.did = Append(@, "wait")]
    /\ UNCHANGED <<opts, process, spawning, server, scope, parserVars,
                   transportVars,
                   wire, api, eventsVars, sendVars>>

\* mutant: a move leaves the process handle in the source as well
MovedFrom_KeepsProcess(s, emptied) ==
    [url_ |-> IF emptied THEN <<>> ELSE s.url_,
     hostname_ |-> IF emptied THEN <<>> ELSE s.hostname_,
     port_ |-> 0,
     process_ |-> s.process_]

\* a Server that has been moved from: std::move of process_ leaves it null
\* and port_ is set to 0; url_ and hostname_ are moved-from strings, valid but
\* unspecified: empty (emptied) or as they were
MovedFrom(s, emptied) ==
    [url_ |-> IF emptied THEN <<>> ELSE s.url_,
     hostname_ |-> IF emptied THEN <<>> ELSE s.hostname_,
     port_ |-> 0,
     process_ |-> FALSE]

\* Server(Server&& other): a new Server is move-constructed from server and
\* takes the place of other, a Server that owned no process
MoveConstruct(emptied) ==
    /\ spawning.pc \in {"returned", "thrown"}
    /\ scope.life = "alive"
    /\ stopping.pc = "idle"
    /\ ~scope.other.process_
    /\ scope' = [scope EXCEPT !.other = server]
    /\ server' = MovedFrom(server, emptied)
    /\ UNCHANGED <<opts, process, spawning, stopping, parserVars, transportVars,
                   wire, api, eventsVars, sendVars>>

\* mutant: move assignment does not stop the process the target owns
AssignStops_Nothing == FALSE

\* operator=: "stop();" on the target, which acts when StopsProcess
AssignStops == StopsProcess

\* operator=(Server&& other), called as server = std::move(server): by
\* "if (this != &other)" nothing is done
MoveAssignSelf ==
    /\ spawning.pc \in {"returned", "thrown"}
    /\ scope.life = "alive"
    /\ stopping.pc = "idle"
    /\ scope.selfAssigns < MaxSelfAssigns
    /\ scope' = [scope EXCEPT !.selfAssigns = @ + 1]
    /\ UNCHANGED <<opts, process, spawning, server, stopping, parserVars,
                   transportVars, wire, api, eventsVars, sendVars>>

\* operator=(Server&& other), called as server = std::move(other): it begins
\* with stop() on server
MoveAssignCall ==
    /\ spawning.pc \in {"returned", "thrown"}
    /\ scope.life = "alive"
    /\ stopping.pc = "idle"
    /\ scope' = [scope EXCEPT !.life = "assigning"]
    /\ IF AssignStops
       THEN /\ process' = Terminate(process)
            /\ stopping' = [stopping EXCEPT !.pc = "poll", !.elapsed = 0,
                                            !.did = Append(@, "terminate")]
       ELSE UNCHANGED <<process, stopping>>
    /\ UNCHANGED <<opts, spawning, server, parserVars, transportVars, wire,
                   api, eventsVars, sendVars>>

\* operator=(Server&& other) after its stop(): the members are moved
MoveAssignEnd(emptied) ==
    /\ scope.life = "assigning"
    /\ stopping.pc = "idle"
    /\ server' = scope.other
    /\ scope' = [scope EXCEPT !.other = MovedFrom(scope.other, emptied),
                              !.life = "alive"]
    /\ UNCHANGED <<opts, process, spawning, stopping, parserVars, transportVars,
                   wire, api, eventsVars, sendVars>>

\* Server::running()
Running == server.process_ /\ IsRunning

\* mutant: force_stop sends the graceful signal
ForceStopSignal_Graceful(p) == Terminate(p)

\* force_stop: "process_->kill();"
ForceStopSignal(p) == Kill(p)

\* force_stop() is called: nothing to do, or kill() and the start of wait()
ForceStopCall ==
    /\ spawning.pc \in {"returned", "thrown"}
    /\ scope.life = "alive"
    /\ stopping.pc = "idle"
    /\ IF Running
       THEN /\ process' = ForceStopSignal(process)
            /\ stopping' = [stopping EXCEPT !.pc = "force_reap",
                                            !.did = Append(@, "kill")]
       ELSE UNCHANGED <<process, stopping>>
    /\ UNCHANGED <<opts, spawning, server, scope, parserVars, transportVars,
                   wire, api, eventsVars, sendVars>>

\* force_stop: process_->wait() returned; force_stop() returns
ForceStopReap ==
    /\ stopping.pc = "force_reap"
    /\ WaitReturns
    /\ stopping' = [stopping EXCEPT !.pc = "idle", !.did = Append(@, "wait")]
    /\ UNCHANGED <<opts, process, spawning, server, scope, parserVars,
                   transportVars, wire, api, eventsVars, sendVars>>

\* mutant: the destructor does not call stop()
DestructorStops_Nothing == FALSE

\* ~Server(): "stop();", which acts when StopsProcess
DestructorStops == StopsProcess

\* ~Server() is entered: its stop() returns at once, or sends terminate()
\* and starts to wait
DestructorCall ==
    /\ spawning.pc \in {"returned", "thrown"}
    /\ scope.life = "alive"
    /\ stopping.pc = "idle"
    /\ IF DestructorStops
       THEN /\ process' = Terminate(process)
            /\ stopping' = [stopping EXCEPT !.pc = "poll", !.elapsed = 0,
                                            !.did = Append(@, "terminate")]
            /\ scope' = [scope EXCEPT !.life = "destroying"]
       ELSE /\ scope' = [scope EXCEPT !.life = "destroyed"]
            /\ UNCHANGED <<process, stopping>>
    /\ UNCHANGED <<opts, spawning, server, parserVars, transportVars, wire,
                   api, eventsVars, sendVars>>

\* ~Server(): its stop() has returned; the Server is gone
DestructorReturn ==
    /\ scope.life = "destroying"
    /\ stopping.pc = "idle"
    /\ scope' = [scope EXCEPT !.life = "destroyed"]
    /\ UNCHANGED <<opts, process, spawning, server, stopping, parserVars,
                   transportVars, wire, api, eventsVars, sendVars>>

-----------------------------------------------------------------------------
(* The state of the parts a specification does not use *)

\* the thread that calls next(): not in a call; ret is what its last call
\* returned and retClosed the closed flag that call saw
IdleConsumer == [pc |-> "idle", ret |-> "none", retClosed |-> FALSE]

ParserUnused ==
    /\ input = <<>>
    /\ fed = 0
    /\ buffer_ = <<>>
    /\ current_event_ = EmptyEvent
    /\ emitted = <<>>
    /\ splitMidLine = FALSE

EventsUnused ==
    /\ transport = FALSE
    /\ mutex = "free"
    /\ closed = FALSE
    /\ events = <<>>
    /\ error = ""
    /\ consumer = IdleConsumer
    /\ closer = [pc |-> "idle"]
    /\ delivered = <<>>
    /\ pushed = <<>>
    /\ eos = 0
    /\ dropped = <<>>

ServerUnused ==
    /\ opts = [port |-> 0, startup_timeout |-> 0]
    /\ process = [state |-> "none", code |-> 0, script |-> <<>>, pipe |-> <<>>,
                  terminated |-> FALSE, killed |-> FALSE]
    /\ spawning = [SpawnStart(0) EXCEPT !.pc = "none"]
    /\ server = DefaultServer
    /\ stopping = NotStopping
    /\ scope = InScope

SendUnused ==
    /\ caller = [pc |-> "none"]
    /\ done = FALSE
    /\ connected = FALSE
    /\ options = [on_part |-> FALSE, on_complete |-> FALSE, on_error |-> FALSE]
    /\ unary = "pending"
    /\ parts = <<>>
    /\ completeCalls = 0
    /\ userErrors = [stream |-> 0, unary |-> 0]

-----------------------------------------------------------------------------
(* Specification of the transport alone: one thread calls start_sse and       *)
(* stop_sse in any order, with callbacks that only return.                    *)

\* a record of the push channel: its JSON "type", the session id of its part,
\* and its position on the wire
Rec(t, sid, n) == [type |-> t, sid |-> sid, n |-> n]

InitTransport ==
    /\ TransportIdle
    /\ api = [pc |-> "idle"]
    /\ wire = [n \in 1..MaxWire |-> Rec("server.heartbeat", "", n)]
    /\ ParserUnused
    /\ ServerUnused
    /\ EventsUnused
    /\ SendUnused

\* start_sse: enters its stop_sse() call
StartSseCall ==
    /\ api.pc = "idle"
    /\ nstreams < MaxStreams
    /\ StopFlag
    /\ api' = [pc |-> "start_join"]
    /\ UNCHANGED <<sse_connected_, sse_thread_, worker, nstreams, closeCalls,
                   errorCalls, wire, parserVars, serverVars, eventsVars, sendVars>>

\* start_sse: its stop_sse() has joined; the new worker is created
StartSseSpawn ==
    /\ api.pc = "start_join"
    /\ JoinReturns
    /\ SpawnWorker
    /\ api' = [pc |-> "idle"]
    /\ UNCHANGED <<sse_connected_, closeCalls, errorCalls, wire, parserVars, serverVars,
                   eventsVars, sendVars>>

\* stop_sse (also ~Impl): sets the flag
StopSseCall ==
    /\ api.pc = "idle"
    /\ StopFlag
    /\ api' = [pc |-> "stop_join"]
    /\ UNCHANGED <<sse_connected_, sse_thread_, worker, nstreams, closeCalls,
                   errorCalls, wire, parserVars, serverVars, eventsVars, sendVars>>

\* stop_sse: joined (or nothing to join); returns
StopSseReturn ==
    /\ api.pc = "stop_join"
    /\ JoinReturns
    /\ sse_thread_' = 0
    /\ api' = [pc |-> "idle"]
    /\ UNCHANGED <<sse_running_, sse_connected_, worker, nstreams, closeCalls,
                   errorCalls, wire, parserVars, serverVars, eventsVars, sendVars>>

\* a caller's on_event that only returns
RawEventReturn(i) ==
    /\ worker[i].pc = "on_event"
    /\ EventReturned(i)
    /\ UNCHANGED <<sse_running_, sse_connected_, sse_thread_, nstreams,
                   closeCalls, errorCalls, wire, outsideWorker>>

\* a caller's on_error that only returns
RawErrorReturn(i) ==
    /\ worker[i].pc = "on_error"
    /\ ErrorReturned(i)
    /\ UNCHANGED <<sse_running_, sse_connected_, sse_thread_, nstreams,
                   errorCalls, wire, outsideWorker>>

\* a caller's on_close that only returns
RawCloseReturn(i) ==
    /\ worker[i].pc = "on_close"
    /\ CloseReturned(i)
    /\ UNCHANGED <<sse_running_, sse_connected_, sse_thread_, nstreams,
                   closeCalls, errorCalls, wire, outsideWorker>>

NextTransport ==
    \/ StartSseCall
    \/ StartSseSpawn
    \/ StopSseCall
    \/ StopSseReturn
    \/ \E i \in Streams : WorkerBegin(i)
    \/ \E i \in Streams : \E n \in 0..MaxBatch : ChunkArrives(i, n)
    \/ \E i \in Streams : \E ok \in BOOLEAN : GetEnds(i, ok)
    \/ \E i \in Streams : AfterGet(i)
    \/ \E i \in Streams : RawEventReturn(i)
    \/ \E i \in Streams : RawErrorReturn(i)
    \/ \E i \in Streams : RawCloseReturn(i)

SpecTransport == InitTransport /\ [][NextTransport]_vars

-----------------------------------------------------------------------------
(* C9: for every started stream on_close is invoked exactly once: never       *)
(* before the worker's loop has ended, once when it has, whatever ended it,   *)
(* and every stream that stop_sse or a later start_sse has joined has had it. *)
C9_OnCloseExactlyOnce ==
    \A i \in Streams :
        /\ closeCalls[i] = IF worker[i].pc \in {"on_close", "done"} THEN 1 ELSE 0
        /\ (i <= nstreams /\ (i < nstreams \/ sse_thread_ = 0)) => closeCalls[i] = 1

\* three streams ended, one by a stop, one by a failure, one by the server
C9_Witness ==
    /\ nstreams = 3
    /\ \A i \in 1..3 : worker[i].pc = "done" /\ closeCalls[i] = 1
    /\ {worker[i].why : i \in 1..3} = {"stopped", "failed", "server_closed"}
    /\ \E i \in 1..3 : errorCalls[i] = 1

(* C10: at most one streaming worker is alive at any time, and once a later   *)
(* stream's worker exists every earlier worker has finished, its on_close     *)
(* included.                                                                  *)
C10_AtMostOneWorker ==
    /\ Cardinality({i \in Streams : Alive(i)}) <= 1
    /\ \A i, j \in Streams :
          (i < j /\ worker[j].pc # "unborn") =>
              (worker[i].pc = "done" /\ closeCalls[i] = 1)

\* the second stream is reading while the first, ended by the stop flag, is done
C10_Witness ==
    /\ nstreams = 2
    /\ worker[2].pc = "get"
    /\ worker[1].pc = "done"
    /\ worker[1].why = "stopped"

(* C11: stop_sse joins the worker before it returns.  Whenever no start_sse   *)
(* or stop_sse call is in progress and sse_thread_ is not joinable (stop_sse, *)
(* or ~Impl, has returned) no worker is left running, and a finished worker   *)
(* invokes no callback any more: it takes no step and its on_error and        *)
(* on_close counts stay.  A stop_sse call that finds nothing to join can      *)
(* return at once and changes nothing in the transport.                       *)
C11_StopJoinsWorker ==
    /\ [](api.pc = "idle" /\ ~Joinable =>
             \A i \in Streams : worker[i].pc \in {"unborn", "done"})
    /\ [](api.pc = "stop_join" /\ ~Joinable => ENABLED StopSseReturn)
    /\ [][ /\ \A i \in Streams : worker[i].pc = "done" =>
                 /\ worker'[i] = worker[i]
                 /\ closeCalls'[i] = closeCalls[i]
                 /\ errorCalls'[i] = errorCalls[i]
           /\ (~Joinable /\ ~sse_running_ /\ api.pc \in {"idle", "stop_join"}
                 /\ api'.pc \in {"idle", "stop_join"})
                => UNCHANGED transportVars ]_vars

\* a second stop_sse call is under way after the first one joined a worker
\* that was reading when the flag was set
C11_Witness ==
    /\ api.pc = "stop_join"
    /\ ~Joinable
    /\ nstreams = 1
    /\ worker[1].pc = "done"
    /\ worker[1].why = "stopped"

(* C12: a stop request ends the worker's read by itself.  Whenever the stop   *)
(* flag is set while the worker is blocked in Get, the worker can leave Get   *)
(* by a step that is not an event of the connection (a chunk arriving, the    *)
(* server closing the response, the connection failing or timing out).        *)
C12_StopEndsReadByItself ==
    \A i \in Streams :
        (worker[i].pc = "get" /\ ~sse_running_) =>
            ENABLED ( /\ NextTransport
                      /\ worker'[i].pc # "get"
                      /\ ~ \E n \in 0..MaxBatch : ChunkArrives(i, n)
                      /\ ~ \E ok \in BOOLEAN : GetEnds(i, ok) )

-----------------------------------------------------------------------------
(* EventStream: next(), close() and the callbacks of Client::subscribe_events *)

\* mutant: next() does not wait for an event or for closed
WaitPredicate_NoWait(q, c) == TRUE

\* the predicate of cv.wait in next()
WaitPredicate(q, c) == q # <<>> \/ c

\* mutant: next() reports the end of a closed stream that still holds events
ReturnsSentinel_WhenClosed(q, c) == q = <<>> \/ c

\* next() after the wait: "if (events.empty()) return std::nullopt"
ReturnsSentinel(q, c) == q = <<>>

\* on_record: "if (impl->closed) return"
DiscardsRecord(c) == c

\* mutant: a record that fails to decode is enqueued all the same
Decode_PushesUndecodable(rec) ==
    IF rec.type \in {"malformed", "server.connected", "server.heartbeat",
                     "session.created", "session.updated", "permission.asked",
                     "message.part.updated"}
    THEN "push"
    ELSE "skip"

\* what on_record does with a record once it holds the mutex and the stream
\* is open: json::parse or a parse_* helper throws ("throw"), an event of a
\* known type is pushed ("push"), any other record changes nothing ("skip")
Decode(rec) ==
    IF rec.type = "malformed" THEN "throw"
    ELSE IF rec.type \in {"server.connected", "server.heartbeat", "session.created",
                          "session.updated", "permission.asked",
                          "message.part.updated"}
    THEN "push"
    ELSE "skip"

\* mutant: a new event is put in front of the queued ones
Push_Front(q, e) == <<e>> \o q

\* std::queue: push, front, pop
Push(q, e) == Append(q, e)

Front(q) == Head(q)

Pop(q) == Tail(q)

\* cv.notify_all() as seen by the thread in next()
NotifyAll(c) == IF c.pc = "waiting" THEN [c EXCEPT !.pc = "woken"] ELSE c

\* the consumer calls next()
NextCall ==
    /\ consumer.pc = "idle"
    /\ eos < MaxEos
    /\ consumer' = [consumer EXCEPT !.pc = "calling"]
    /\ UNCHANGED <<transport, mutex, closed, events, error, closer, delivered,
                   pushed, eos, dropped, transportVars, wire, api, parserVars, serverVars, sendVars>>

\* next() with the mutex: either the predicate holds and it returns the front
\* event or the sentinel, or it releases the mutex and waits
NextLocked ==
    /\ consumer.pc \in {"calling", "woken"}
    /\ mutex = "free"
    /\ IF WaitPredicate(events, closed)
       THEN IF ReturnsSentinel(events, closed)
            THEN /\ eos' = eos + 1
                 /\ consumer' = [pc |-> "idle", ret |-> "eos", retClosed |-> closed]
                 /\ UNCHANGED <<events, delivered>>
            ELSE /\ delivered' = Append(delivered, Front(events))
                 /\ events' = Pop(events)
                 /\ consumer' = [pc |-> "idle", ret |-> "item", retClosed |-> closed]
                 /\ UNCHANGED eos
       ELSE /\ consumer' = [consumer EXCEPT !.pc = "waiting"]
            /\ UNCHANGED <<events, delivered, eos>>
    /\ UNCHANGED <<transport, mutex, closed, error, closer, pushed, dropped,
                   transportVars, wire, api, parserVars, serverVars, sendVars>>

\* a spurious wake-up of cv.wait
SpuriousWake ==
    /\ consumer.pc = "waiting"
    /\ consumer' = [consumer EXCEPT !.pc = "woken"]
    /\ UNCHANGED <<transport, mutex, closed, events, error, closer, delivered,
                   pushed, eos, dropped, transportVars, wire, api, parserVars, serverVars, sendVars>>

\* close() is called (explicitly or by ~EventStream)
CloseCall ==
    /\ closer.pc = "idle"
    /\ closer' = [closer EXCEPT !.pc = "calling"]
    /\ UNCHANGED <<transport, mutex, closed, events, error, consumer, delivered,
                   pushed, eos, dropped, transportVars, wire, api, parserVars, serverVars, sendVars>>

\* close(): takes the mutex, sets closed and enters transport->stop_sse()
CloseLocked ==
    /\ closer.pc = "calling"
    /\ mutex = "free"
    /\ mutex' = "closer"
    /\ closed' = TRUE
    /\ IF transport THEN StopFlag ELSE UNCHANGED sse_running_
    /\ closer' = [closer EXCEPT !.pc = "joining"]
    /\ UNCHANGED <<transport, events, error, consumer, delivered, pushed, eos,
                   dropped, sse_connected_, sse_thread_, worker, nstreams,
                   closeCalls, errorCalls, wire, api, parserVars, serverVars, sendVars>>

\* close(): stop_sse() has joined the worker; notify_all, unlock, return
CloseReturn ==
    /\ closer.pc = "joining"
    /\ transport => JoinReturns
    /\ sse_thread_' = 0
    /\ consumer' = NotifyAll(consumer)
    /\ mutex' = "free"
    /\ closer' = [closer EXCEPT !.pc = "idle"]
    /\ UNCHANGED <<transport, closed, events, error, delivered, pushed, eos,
                   dropped, sse_running_, sse_connected_, worker, nstreams,
                   closeCalls, errorCalls, wire, api, parserVars, serverVars, sendVars>>

\* the on_record lambda of subscribe_events, from taking the mutex to its return
OnRecord(i) ==
    /\ worker[i].pc = "on_event"
    /\ mutex = "free"
    /\ LET rec == Head(worker[i].batch)
       IN  IF DiscardsRecord(closed)
           THEN /\ dropped' = Append(dropped, [n |-> rec.n, why |-> "closed"])
                /\ UNCHANGED <<events, pushed, consumer>>
           ELSE IF Decode(rec) = "throw"
           THEN /\ dropped' = Append(dropped, [n |-> rec.n, why |-> "undecodable"])
                /\ UNCHANGED <<events, pushed, consumer>>
           ELSE /\ UNCHANGED dropped
                /\ consumer' = NotifyAll(consumer)
                /\ IF Decode(rec) = "push"
                   THEN /\ events' = Push(events, rec)
                        /\ pushed' = Append(pushed, rec)
                   ELSE UNCHANGED <<events, pushed>>
    /\ EventReturned(i)
    /\ UNCHANGED <<transport, mutex, closed, error, closer, delivered, eos,
                   sse_running_, sse_connected_, sse_thread_, nstreams,
                   closeCalls, errorCalls, wire, api, parserVars, serverVars, sendVars>>

\* the on_error lambda of subscribe_events
OnError(i) ==
    /\ worker[i].pc = "on_error"
    /\ mutex = "free"
    /\ error' = "error"
    /\ closed' = TRUE
    /\ consumer' = NotifyAll(consumer)
    /\ ErrorReturned(i)
    /\ UNCHANGED <<transport, mutex, events, closer, delivered, pushed, eos,
                   dropped, sse_running_, sse_connected_, sse_thread_, nstreams,
                   errorCalls, wire, api, parserVars, serverVars, sendVars>>

\* the on_close lambda of subscribe_events
OnClose(i) ==
    /\ worker[i].pc = "on_close"
    /\ mutex = "free"
    /\ closed' = TRUE
    /\ consumer' = NotifyAll(consumer)
    /\ CloseReturned(i)
    /\ UNCHANGED <<transport, mutex, events, error, closer, delivered, pushed,
                   eos, dropped, sse_running_, sse_connected_, sse_thread_,
                   nstreams, closeCalls, errorCalls, wire, api, parserVars, serverVars, sendVars>>

\* the records a server can send to an event subscription
EventRecTypes == {"server.connected", "message.part.updated", "unknown.type",
                  "malformed"}

EventWires ==
    UNION { { [n \in 1..len |-> Rec(ts[n], IF ts[n] = "message.part.updated"
                                           THEN "s1" ELSE "", n)] :
                ts \in [1..len -> EventRecTypes] } : len \in 0..MaxWire }

\* an EventStream returned by subscribe_events (its worker just created), or
\* a default-constructed one, which has no transport
InitEvents ==
    /\ transport \in BOOLEAN
    /\ IF transport
       THEN /\ sse_running_ = TRUE
            /\ sse_connected_ = FALSE
            /\ sse_thread_ = 1
            /\ worker = [i \in Streams |->
                            IF i = 1 THEN [NoWorker EXCEPT !.pc = "spawned"]
                            ELSE NoWorker]
            /\ nstreams = 1
            /\ closeCalls = [i \in Streams |-> 0]
            /\ errorCalls = [i \in Streams |-> 0]
            /\ wire \in EventWires
       ELSE TransportIdle /\ wire = <<>>
    /\ mutex = "free"
    /\ closed = FALSE
    /\ events = <<>>
    /\ error = ""
    /\ consumer = IdleConsumer
    /\ closer = [pc |-> "idle"]
    /\ delivered = <<>>
    /\ pushed = <<>>
    /\ eos = 0
    /\ dropped = <<>>
    /\ api = [pc |-> "idle"]
    /\ ParserUnused
    /\ ServerUnused
    /\ SendUnused

NextEvents ==
    \/ NextCall
    \/ NextLocked
    \/ SpuriousWake
    \/ CloseCall
    \/ CloseLocked
    \/ CloseReturn
    \/ \E i \in Streams : WorkerBegin(i)
    \/ \E i \in Streams : \E n \in 0..MaxBatch : ChunkArrives(i, n)
    \/ \E i \in Streams : \E ok \in BOOLEAN : GetEnds(i, ok)
    \/ \E i \in Streams : AfterGet(i)
    \/ \E i \in Streams : OnRecord(i)
    \/ \E i \in Streams : OnError(i)
    \/ \E i \in Streams : OnClose(i)

SpecEvents == InitEvents /\ [][NextEvents]_vars

\* every thread that can take a step eventually takes one; a read on the
\* streaming connection does not block for ever (the 600 s read timeout)
FairEvents ==
    /\ WF_vars(NextLocked)
    /\ WF_vars(CloseLocked)
    /\ WF_vars(CloseReturn)
    /\ \A i \in Streams :
          /\ WF_vars(WorkerBegin(i))
          /\ WF_vars(\E ok \in BOOLEAN : GetEnds(i, ok))
          /\ WF_vars(AfterGet(i))
          /\ WF_vars(OnRecord(i))
          /\ WF_vars(OnError(i))
          /\ WF_vars(OnClose(i))

FairSpecEvents == SpecEvents /\ FairEvents

-----------------------------------------------------------------------------
(* C3: close() never waits for ever on the worker: the closing thread is      *)
(* never inside stop_sse's join, holding the stream mutex, while the worker   *)
(* it joins is waiting for that mutex in one of its callbacks.                *)
C3_CloseNeverJoinsBlockedWorker ==
    ~ ( /\ closer.pc = "joining"
        /\ mutex = "closer"
        /\ Joinable
        /\ worker[sse_thread_].pc \in {"on_event", "on_error", "on_close"} )

(* C4: when close() is called while the consumer is blocked in next(), the    *)
(* consumer is eventually woken and its next() returns.                       *)
C4_CloseWakesConsumer ==
    (consumer.pc = "waiting" /\ closer.pc = "calling") ~> (consumer.pc = "idle")

(* C5: the consumer receives the enqueued events in enqueue order, none lost  *)
(* and none twice: what next() has returned followed by what is still queued  *)
(* is exactly what was enqueued, and the sentinel is returned only when       *)
(* everything enqueued has been returned.                                     *)
C5_FifoNoLossNoDuplicate ==
    /\ delivered \o events = pushed
    /\ eos > 0 => delivered = pushed

\* all of several events were received, in order, and then the sentinel
C5_Witness ==
    /\ eos >= 1
    /\ Len(delivered) >= 2
    /\ delivered = pushed
    /\ wire = <<>>

(* C6: a next() call returns the sentinel only when the stream is closed and  *)
(* the queue is empty; with a non-empty queue it returns the front event,     *)
(* closed or not.                                                             *)
C6_SentinelOnlyClosedAndDrained ==
    [][ /\ (eos' # eos) => (closed /\ events = <<>>)
        /\ (consumer.pc # "idle" /\ consumer'.pc = "idle" /\ events # <<>>) =>
              (delivered' = Append(delivered, events[1]) /\ eos' = eos) ]_vars

\* next() returned an event of a stream that was already closed
C6_Witness == consumer.ret = "item" /\ consumer.retClosed /\ eos = 0

(* C7: once closed the stream stays closed and nothing more is enqueued, and  *)
(* once next() has returned the sentinel no later next() returns an event.    *)
C7_EndOfStreamIsFinal ==
    [][ /\ closed => (closed' /\ pushed' = pushed)
        /\ eos > 0 => (delivered' = delivered /\ events' = <<>>) ]_vars

\* the sentinel was returned twice, after an event had been delivered
C7_Witness == eos >= 2 /\ Len(delivered) >= 1 /\ closed

-----------------------------------------------------------------------------
(* Client::send_message_streaming: the calling thread and the three lambdas   *)
(* it passes to start_sse                                                     *)

\* the session the message is sent to
TargetSession == "s1"

\* cv.notify_all() on StreamState::cv as seen by the caller in cv.wait_for
NotifyCaller(c) == IF c.pc = "waiting" THEN [c EXCEPT !.pc = "wait_check"] ELSE c

\* mutant: a push-channel error seen by the handshake wait ends the call
\* without the unary send
WaitCheck_AbortsOnError ==
    /\ caller.pc = "wait_check"
    /\ caller' = [caller EXCEPT !.pc = IF connected /\ errorCalls[1] > 0
                                       THEN "returned"
                                       ELSE IF connected THEN "send"
                                       ELSE "wait_enter"]
    /\ UNCHANGED <<done, connected, options, unary, parts, completeCalls,
                   userErrors, transportVars, wire, api, parserVars, serverVars,
                   eventsVars>>

\* wait_for evaluates its predicate: connected.load()
WaitCheck ==
    /\ caller.pc = "wait_check"
    /\ caller' = [caller EXCEPT !.pc = IF connected THEN "send" ELSE "wait_enter"]
    /\ UNCHANGED <<done, connected, options, unary, parts, completeCalls,
                   userErrors, transportVars, wire, api, parserVars, serverVars, eventsVars>>

\* wait_for releases the mutex and blocks
WaitEnter ==
    /\ caller.pc = "wait_enter"
    /\ caller' = [caller EXCEPT !.pc = "waiting"]
    /\ UNCHANGED <<done, connected, options, unary, parts, completeCalls,
                   userErrors, transportVars, wire, api, parserVars, serverVars, eventsVars>>

\* a spurious wake-up of wait_for: the predicate is evaluated again
WaitSpurious ==
    /\ caller.pc = "waiting"
    /\ caller' = [caller EXCEPT !.pc = "wait_check"]
    /\ UNCHANGED <<done, connected, options, unary, parts, completeCalls,
                   userErrors, transportVars, wire, api, parserVars, serverVars, eventsVars>>

\* the 2 seconds of wait_for are over: it returns, whatever connected is, and
\* send_message is called
WaitTimeout ==
    /\ caller.pc \in {"wait_enter", "waiting"}
    /\ caller' = [caller EXCEPT !.pc = "send"]
    /\ UNCHANGED <<done, connected, options, unary, parts, completeCalls,
                   userErrors, transportVars, wire, api, parserVars, serverVars, eventsVars>>

\* send_message returns the message (ok) or throws
UnaryResolves(ok) ==
    /\ caller.pc = "send"
    /\ unary' = IF ok THEN "ok" ELSE "failed"
    /\ caller' = [caller EXCEPT !.pc = "resolved"]
    /\ UNCHANGED <<done, connected, options, parts, completeCalls, userErrors,
                   transportVars, wire, api, parserVars, serverVars, eventsVars>>

\* state->done = true, in the try block or in the handler
MarkDone ==
    /\ caller.pc = "resolved"
    /\ done' = TRUE
    /\ caller' = [caller EXCEPT !.pc = "stop"]
    /\ UNCHANGED <<connected, options, unary, parts, completeCalls, userErrors,
                   transportVars, wire, api, parserVars, serverVars, eventsVars>>

\* sse_transport->stop_sse(): the flag
SendStopFlag ==
    /\ caller.pc = "stop"
    /\ StopFlag
    /\ caller' = [caller EXCEPT !.pc = "join"]
    /\ UNCHANGED <<done, connected, options, unary, parts, completeCalls,
                   userErrors, sse_connected_, sse_thread_, worker, nstreams,
                   closeCalls, errorCalls, wire, api, parserVars, serverVars, eventsVars>>

\* sse_transport->stop_sse(): the join
SendJoin ==
    /\ caller.pc = "join"
    /\ JoinReturns
    /\ sse_thread_' = 0
    /\ caller' = [caller EXCEPT !.pc = "terminal"]
    /\ UNCHANGED <<done, connected, options, unary, parts, completeCalls,
                   userErrors, sse_running_, sse_connected_, worker, nstreams,
                   closeCalls, errorCalls, wire, api, parserVars, serverVars, eventsVars>>

\* mutant: on_complete is skipped once the push channel has reported an error
InvokesComplete_UnlessStreamError ==
    unary = "ok" /\ options.on_complete /\ userErrors.stream = 0

\* the try block after stop_sse: "if (state->options.on_complete)"
InvokesComplete == unary = "ok" /\ options.on_complete

\* the callbacks after stop_sse: on_complete in the try block, and on_error
\* in the handler, which is entered when send_message threw and also when
\* on_complete throws (throws = TRUE)
Terminal(throws) ==
    /\ caller.pc = "terminal"
    /\ LET completes == InvokesComplete
           handler == unary = "failed" \/ (completes /\ throws)
       IN  /\ throws => completes
           /\ completeCalls' = IF completes THEN completeCalls + 1 ELSE completeCalls
           /\ userErrors' = IF handler /\ options.on_error
                            THEN [userErrors EXCEPT !.unary = @ + 1]
                            ELSE userErrors
    /\ caller' = [caller EXCEPT !.pc = "returned"]
    /\ UNCHANGED <<done, connected, options, unary, parts, transportVars, wire,
                   api, parserVars, serverVars, eventsVars>>

\* the on_event lambda: "if (state->done) return"
PartCheckDone(i) ==
    /\ worker[i].pc = "on_event"
    /\ IF done
       THEN EventReturned(i)
       ELSE worker' = [worker EXCEPT ![i].pc = "ev_body"]
    /\ UNCHANGED <<sse_running_, sse_connected_, sse_thread_, nstreams,
                   closeCalls, errorCalls, wire, api, parserVars, serverVars, eventsVars,
                   sendVars>>

\* mutant: the session id of the part is not compared with the target
DeliversPart_AnySession(rec) ==
    /\ rec.type = "message.part.updated"
    /\ options.on_part

\* whether the on_event lambda hands a record to on_part
DeliversPart(rec) ==
    /\ rec.type = "message.part.updated"
    /\ rec.sid = TargetSession
    /\ options.on_part

\* the on_event lambda after the done check: a record that does not parse
\* throws and is ignored, server.connected sets connected and notifies, a
\* part-update of the target session goes to on_part, the rest is ignored
PartBody(i) ==
    /\ worker[i].pc = "ev_body"
    /\ LET rec == Head(worker[i].batch)
       IN  IF rec.type = "malformed"
           THEN UNCHANGED <<connected, caller, parts>>
           ELSE IF rec.type = "server.connected"
           THEN /\ connected' = TRUE
                /\ caller' = NotifyCaller(caller)
                /\ UNCHANGED parts
           ELSE IF DeliversPart(rec)
           THEN /\ parts' = Append(parts, [n |-> rec.n, type |-> rec.type,
                                           sid |-> rec.sid, done |-> done])
                /\ UNCHANGED <<connected, caller>>
           ELSE UNCHANGED <<connected, caller, parts>>
    /\ EventReturned(i)
    /\ UNCHANGED <<done, options, unary, completeCalls, userErrors, sse_running_,
                   sse_connected_, sse_thread_, nstreams, closeCalls, errorCalls,
                   wire, api, parserVars, serverVars, eventsVars>>

\* whether the on_error lambda passes the stream's error to the caller
ForwardsStreamError == ~done /\ options.on_error

\* the on_error lambda: "if (!state->done && state->options.on_error)"
StreamErrorCheck(i) ==
    /\ worker[i].pc = "on_error"
    /\ worker' = [worker EXCEPT ![i].pc =
                     IF ForwardsStreamError THEN "err_call" ELSE "err_after"]
    /\ UNCHANGED <<sse_running_, sse_connected_, sse_thread_, nstreams,
                   closeCalls, errorCalls, wire, api, parserVars, serverVars, eventsVars,
                   sendVars>>

\* the on_error lambda: state->options.on_error(error)
StreamErrorCall(i) ==
    /\ worker[i].pc = "err_call"
    /\ userErrors' = [userErrors EXCEPT !.stream = @ + 1]
    /\ worker' = [worker EXCEPT ![i].pc = "err_after"]
    /\ UNCHANGED <<caller, done, connected, options, unary, parts, completeCalls,
                   sse_running_, sse_connected_, sse_thread_, nstreams,
                   closeCalls, errorCalls, wire, api, parserVars, serverVars, eventsVars>>

\* the on_error lambda: connected = true, notify_all; then it returns
StreamErrorUnblock(i) ==
    /\ worker[i].pc = "err_after"
    /\ connected' = TRUE
    /\ caller' = NotifyCaller(caller)
    /\ ErrorReturned(i)
    /\ UNCHANGED <<done, options, unary, parts, completeCalls, userErrors,
                   sse_running_, sse_connected_, sse_thread_, nstreams,
                   errorCalls, wire, api, parserVars, serverVars, eventsVars>>

\* the on_close lambda: notify_all
StreamClosed(i) ==
    /\ worker[i].pc = "on_close"
    /\ caller' = NotifyCaller(caller)
    /\ CloseReturned(i)
    /\ UNCHANGED <<done, connected, options, unary, parts, completeCalls,
                   userErrors, sse_running_, sse_connected_, sse_thread_,
                   nstreams, closeCalls, errorCalls, wire, api, parserVars, serverVars,
                   eventsVars>>

\* the records a server can send while a message is being answered
SendRecKinds ==
    { <<"server.connected", "">>, <<"message.part.updated", "s1">>,
      <<"message.part.updated", "s2">>, <<"server.heartbeat", "">>,
      <<"malformed", "">> }

SendWires ==
    UNION { { [n \in 1..len |-> Rec(ks[n][1], ks[n][2], n)] :
                ks \in [1..len -> SendRecKinds] } : len \in 0..MaxSendWire }

\* send_message_streaming after its start_sse call returned: the private
\* transport has its worker, the caller is about to wait for the handshake
InitSend ==
    /\ sse_running_ = TRUE
    /\ sse_connected_ = FALSE
    /\ sse_thread_ = 1
    /\ worker = [i \in Streams |->
                    IF i = 1 THEN [NoWorker EXCEPT !.pc = "spawned"] ELSE NoWorker]
    /\ nstreams = 1
    /\ closeCalls = [i \in Streams |-> 0]
    /\ errorCalls = [i \in Streams |-> 0]
    /\ wire \in SendWires
    /\ caller = [pc |-> "wait_check"]
    /\ done = FALSE
    /\ connected = FALSE
    /\ options \in [on_part : BOOLEAN, on_complete : BOOLEAN, on_error : BOOLEAN]
    /\ unary = "pending"
    /\ parts = <<>>
    /\ completeCalls = 0
    /\ userErrors = [stream |-> 0, unary |-> 0]
    /\ api = [pc |-> "idle"]
    /\ ParserUnused
    /\ ServerUnused
    /\ EventsUnused

NextSend ==
    \/ WaitCheck
    \/ WaitEnter
    \/ WaitSpurious
    \/ WaitTimeout
    \/ \E ok \in BOOLEAN : UnaryResolves(ok)
    \/ MarkDone
    \/ SendStopFlag
    \/ SendJoin
    \/ \E throws \in BOOLEAN : Terminal(throws)
    \/ \E i \in Streams : WorkerBegin(i)
    \/ \E i \in Streams : \E n \in 0..MaxBatch : ChunkArrives(i, n)
    \/ \E i \in Streams : \E ok \in BOOLEAN : GetEnds(i, ok)
    \/ \E i \in Streams : AfterGet(i)
    \/ \E i \in Streams : PartCheckDone(i)
    \/ \E i \in Streams : PartBody(i)
    \/ \E i \in Streams : StreamErrorCheck(i)
    \/ \E i \in Streams : StreamErrorCall(i)
    \/ \E i \in Streams : StreamErrorUnblock(i)
    \/ \E i \in Streams : StreamClosed(i)

SpecSend == InitSend /\ [][NextSend]_vars

\* the calling thread and the worker keep running; wait_for returns when its
\* 2 seconds are over, however often it woke up and found connected false
\* before (strong fairness); a read on the streaming connection does not block
\* for ever (600 s read timeout)
FairSend ==
    /\ WF_vars(WaitCheck)
    /\ SF_vars(WaitTimeout)
    /\ WF_vars(MarkDone)
    /\ WF_vars(SendStopFlag)
    /\ WF_vars(SendJoin)
    /\ WF_vars(\E throws \in BOOLEAN : Terminal(throws))
    /\ \A i \in Streams :
          /\ WF_vars(WorkerBegin(i))
          /\ WF_vars(\E ok \in BOOLEAN : GetEnds(i, ok))
          /\ WF_vars(AfterGet(i))
          /\ WF_vars(PartCheckDone(i))
          /\ WF_vars(PartBody(i))
          /\ WF_vars(StreamErrorCheck(i))
          /\ WF_vars(StreamErrorCall(i))
          /\ WF_vars(StreamErrorUnblock(i))
          /\ WF_vars(StreamClosed(i))

FairSpecSend == SpecSend /\ FairSend

-----------------------------------------------------------------------------
(* C1: in one send_message_streaming call the caller's terminal callbacks     *)
(* are invoked at most once in total: never on_complete and on_error both,    *)
(* never on_error twice.                                                      *)
C1_AtMostOneTerminalCallback ==
    completeCalls + userErrors.stream + userErrors.unary <= 1

(* C2: once the unary send call has resolved, the callback for its outcome    *)
(* (on_complete for a result, on_error for a failure), when the caller set    *)
(* it, is eventually invoked, whatever the push channel did before.           *)
C2_TerminalCallbackDelivered ==
    /\ (unary = "ok" /\ options.on_complete) ~> (completeCalls = 1)
    /\ (unary = "failed" /\ options.on_error) ~> (userErrors.unary = 1)

\* the call returned after its callback although the push channel had failed
\* and no handshake had been received
C2_Witness ==
    /\ caller.pc = "returned"
    /\ completeCalls = 1
    /\ errorCalls[1] = 1
    /\ worker[1].why = "failed"
    /\ Len(wire) = MaxSendWire

(* C13: every send_message_streaming call issues the unary send, and issues   *)
(* it once: the caller reaches send_message whether the wait ended by the     *)
(* handshake, by a push-channel error or by the timeout, it gets there only   *)
(* from the handshake wait with no send made before, and once the send has    *)
(* resolved it is not made again.                                             *)
C13_UnarySentExactlyOnce ==
    /\ <>(caller.pc = "send")
    /\ [](unary # "pending" <=>
             caller.pc \in {"resolved", "stop", "join", "terminal", "returned"})
    /\ [][ /\ (caller.pc # "send" /\ caller'.pc = "send") =>
                 (caller.pc \in {"wait_check", "wait_enter", "waiting"}
                    /\ unary = "pending")
           /\ unary # "pending" => (unary' = unary /\ caller'.pc # "send") ]_vars

\* the unary send is being made after the push channel failed and the caller
\* was told so, without any handshake
C13_Witness ==
    /\ caller.pc = "send"
    /\ userErrors.stream = 1
    /\ worker[1].why = "failed"
    /\ Len(wire) = MaxSendWire

(* C14: on_part is invoked only for records of type message.part.updated      *)
(* whose session id is the target session: no invocation for a part-update    *)
(* of another session or for a record of another type.                        *)
C14_PartsOnlyOfTargetSession ==
    \A k \in 1..Len(parts) :
        /\ parts[k].type = "message.part.updated"
        /\ parts[k].sid = TargetSession

\* the second record of the connection was handed to on_part and the first,
\* which was read before it, was not
C14_Witness ==
    /\ Len(parts) = 1
    /\ parts[1].n = 2
    /\ parts[1].sid = TargetSession

(* C15: once the terminal callback can start (stop_sse has returned), and     *)
(* after send_message_streaming has returned, the worker of the private       *)
(* subscription has finished, and neither on_part nor the stream's on_error   *)
(* is invoked any more.                                                       *)
C15_NoCallbackAfterTerminal ==
    /\ [](caller.pc \in {"terminal", "returned"} =>
             \A i \in Streams : worker[i].pc \in {"unborn", "done"})
    /\ [][ caller.pc \in {"terminal", "returned"} =>
              (parts' = parts /\ userErrors'.stream = userErrors.stream) ]_vars

\* the call returned after parts were delivered and the worker, still reading
\* when the send resolved, was ended by the stop flag
C15_Witness ==
    /\ caller.pc = "returned"
    /\ parts # <<>>
    /\ worker[1].pc = "done"
    /\ worker[1].why = "stopped"

-----------------------------------------------------------------------------
(* Specification of the parser: one connection's bytes, fed in chunks *)

ParserState == [buffer_ |-> buffer_, current_event_ |-> current_event_,
                emitted |-> emitted]

InitParser ==
    /\ input \in Inputs
    /\ fed = 0
    /\ buffer_ = <<>>
    /\ current_event_ = EmptyEvent
    /\ emitted = <<>>
    /\ splitMidLine = FALSE
    /\ TransportIdle
    /\ api = [pc |-> "idle"]
    /\ wire = <<>>
    /\ EventsUnused
    /\ SendUnused
    /\ ServerUnused

\* the content receiver of run_sse hands the next n bytes to parser.feed
FeedChunk(n) ==
    /\ fed + n <= Len(input)
    /\ LET p == Feed(ParserState, SubSeq(input, fed + 1, fed + n))
       IN  /\ buffer_' = p.buffer_
           /\ current_event_' = p.current_event_
           /\ emitted' = p.emitted
    /\ fed' = fed + n
    /\ splitMidLine' = (splitMidLine \/ buffer_ # <<>>)
    /\ UNCHANGED <<input, transportVars, wire, api, eventsVars, sendVars,
                   serverVars>>

NextParser == \E n \in 1..Len(input) : FeedChunk(n)

SpecParser == InitParser /\ [][NextParser]_vars

-----------------------------------------------------------------------------
(* C8: chunking invariance.  After any sequence of feed() calls the records  *)
(* emitted so far and the parser state (buffer_, current_event_) are exactly *)
(* those of a fresh parser fed the same bytes in a single call.              *)
C8_ChunkingInvariance ==
    ParserState = Feed(FreshParser, SubSeq(input, 1, fed))

\* a record was emitted from an input whose chunks split a line
C8_Witness ==
    /\ fed = Len(input)
    /\ splitMidLine
    /\ Len(emitted) >= 1
    /\ emitted[1].data # <<>>

-----------------------------------------------------------------------------
(* Specifications of the supervisor: one Server::spawn call on a process that *)
(* prints and exits as it likes, then stop() calls on what spawn left.        *)

InitServer ==
    /\ opts \in ServerOptions
    /\ \E script \in Scripts : process = StartedProcess(script)
    /\ spawning = SpawnStart(opts.port)
    /\ server = DefaultServer
    /\ stopping = NotStopping
    /\ scope = InScope
    /\ TransportIdle
    /\ api = [pc |-> "idle"]
    /\ wire = <<>>
    /\ ParserUnused
    /\ EventsUnused
    /\ SendUnused

NextServer ==
    \/ ProcPrints
    \/ \E code \in ExitCodes : ProcExits(code)
    \/ \E d \in {0, PollMs} : SpawnLoop(d)
    \/ SpawnEnd
    \/ StopCall
    \/ \E d \in {PollMs, 2 * PollMs} : StopPoll(d)
    \/ StopReap

SpecServer == InitServer /\ [][NextServer]_vars

\* the spawn call alone, up to its return or its exception
NextSpawn ==
    \/ ProcPrints
    \/ \E code \in ExitCodes : ProcExits(code)
    \/ \E d \in {0, PollMs} : SpawnLoop(d)
    \/ SpawnEnd

SpecSpawn == InitServer /\ [][NextSpawn]_vars

\* the thread inside spawn keeps running: has_data(100) returns within its
\* 100 ms and wait() is called only on a process that has exited
FairSpawn ==
    /\ WF_vars(\E d \in {0, PollMs} : SpawnLoop(d))
    /\ WF_vars(SpawnEnd)

FairSpecSpawn == SpecSpawn /\ FairSpawn

-----------------------------------------------------------------------------
(* C16: stop() is idempotent.  A stop() call on a Server that owns no process *)
(* or whose process is no longer running returns at once: it sends no signal, *)
(* waits for nothing and leaves the Server and the process as they were.      *)
C16_StopIdempotent ==
    [][ ( /\ stopping.pc = "idle"
          /\ stopping' # stopping
          /\ (~server.process_ \/ process.state # "running") )
        => ( /\ process' = process
             /\ server' = server
             /\ stopping' = [stopping EXCEPT !.calls = @ + 1] ) ]_vars

\* a second stop() has returned on a Server whose process the first stop()
\* had terminated and reaped
C16_Witness ==
    /\ stopping.pc = "idle"
    /\ stopping.calls = 2
    /\ stopping.did = <<"terminate", "wait">>
    /\ server.process_
    /\ process.state = "exited"

(* C17: stop() on a running process terminates, polls, force-kills, reaps, in *)
(* that order: what it does to the process is terminate, then at most one     *)
(* kill, then wait; the kill is sent only to a process found running after    *)
(* more than the 5 seconds of grace have elapsed since the terminate; and a   *)
(* stop() that signalled the process does not return before it has waited.    *)
C17_StopOrder ==
    /\ [](stopping.did \in { <<>>, <<"terminate">>, <<"terminate", "kill">>,
                             <<"terminate", "wait">>,
                             <<"terminate", "kill", "wait">> })
    /\ [](stopping.pc = "idle" /\ stopping.did # <<>> =>
             stopping.did[Len(stopping.did)] = "wait")
    /\ [][ ( /\ Len(stopping'.did) = Len(stopping.did) + 1
             /\ stopping'.did[Len(stopping'.did)] = "kill" )
           => ( /\ process.state = "running"
                /\ process.terminated
                /\ stopping.elapsed > GraceMs ) ]_vars

\* stop() has returned after the process ignored the terminate signal for the
\* whole grace window and was killed
C17_Witness ==
    /\ stopping.pc = "idle"
    /\ stopping.did = <<"terminate", "kill", "wait">>
    /\ process.state = "exited"

(* C18: when the process has exited by itself before any line matched a       *)
(* readiness rule, spawn ends with the process-exited error, which carries    *)
(* the exit code of the process and the output accumulated so far, and no     *)
(* Server that owns the process exists.                                       *)
C18_ExitDuringStartupFails ==
    ( /\ spawning.pc \in {"thrown", "returned"}
      /\ spawning.matched = 0
      /\ process.state = "exited"
      /\ ~process.killed )
    => ( /\ spawning.result = "process_exited"
         /\ spawning.exit_code = process.code
         /\ spawning.output = spawning.accumulated_output
         /\ server = DefaultServer )

\* spawn failed with exit code 1 after it had read a line that matched nothing
C18_Witness ==
    /\ spawning.result = "process_exited"
    /\ spawning.exit_code = 1
    /\ spawning.matched = 0
    /\ Len(spawning.output) = 1

(* C19: spawn never waits for readiness indefinitely.  It leaves its loop; it *)
(* is in the loop only while less than the startup timeout plus one poll has  *)
(* elapsed; and when it ends with no readiness line matched and the process   *)
(* did not exit by itself, it ends with the startup-timeout error, thrown     *)
(* with the timeout elapsed and carrying the accumulated output, and returns  *)
(* no Server.                                                                 *)
C19_StartupTimeout ==
    /\ (spawning.pc = "loop") ~> (spawning.pc \in {"thrown", "returned"})
    /\ [](spawning.pc = "loop" =>
             spawning.elapsed < opts.startup_timeout + PollMs)
    /\ []( ( /\ spawning.pc \in {"thrown", "returned"}
             /\ spawning.matched = 0
             /\ ~(process.state = "exited" /\ ~process.killed) )
           => ( /\ spawning.result = "startup_timeout"
                /\ spawning.elapsed >= opts.startup_timeout
                /\ spawning.output = spawning.accumulated_output
                /\ server = DefaultServer ) )

\* spawn gave up after two polls on a process that is still running and had
\* printed a line that matched nothing
C19_Witness ==
    /\ spawning.result = "startup_timeout"
    /\ opts.startup_timeout = 2 * PollMs
    /\ Len(spawning.output) = 1
    /\ process.state = "running"

\* the port of a URL as its syntax gives it: the digits after the last colon
\* of the authority (the part between "://" and the next "/"), when that
\* colon comes after the host, a bracketed address included
AuthorityPort(url) ==
    LET from == CHOOSE p \in 1..Len(url) : MatchAt(url, p, SCHEME_SEP, FALSE)
        slashes == {p \in (from + 3)..Len(url) : url[p] = "/"}
        to == IF slashes = {} THEN Len(url)
              ELSE (CHOOSE p \in slashes : \A q \in slashes : p <= q) - 1
        colons == {p \in (from + 3)..to :
                      /\ url[p] = ":"
                      /\ \A q \in (p + 1)..to : url[q] \in Digits}
    IN  IF colons = {} THEN <<>>
        ELSE SubSeq(url, (CHOOSE p \in colons : \A q \in colons : p <= q) + 1, to)

(* C20: when spawn returns a Server after a line matched the announcement     *)
(* pattern with a URL that carries a port, port() is that port and url() is   *)
(* the announced URL, whatever port was requested.                            *)
C20_AnnouncedPortReported ==
    ( /\ spawning.result = "server"
      /\ spawning.matched # 0
      /\ UrlSearch(OutputLine[spawning.matched], 1) # <<>>
      /\ AuthorityPort(UrlSearch(OutputLine[spawning.matched], 1)) # <<>> )
    => LET url == UrlSearch(OutputLine[spawning.matched], 1)
       IN  /\ server.url_ = url
           /\ server.port_ = Stoi(AuthorityPort(url)).val

-----------------------------------------------------------------------------
(* Specification of a Server and a second Server object: after spawn, stop,   *)
(* force_stop, the moves between the two objects and the destructor of the    *)
(* first, in any order.  spawn is called for a system-assigned port with the  *)
(* longest timeout, and the process prints at most one line.                  *)

InitOwner ==
    /\ InitServer
    /\ opts = [port |-> 0, startup_timeout |-> MaxTimeoutPolls * PollMs]
    /\ Len(process.script) <= 1

NextOwner ==
    \/ ProcPrints
    \/ \E code \in ExitCodes : ProcExits(code)
    \/ \E d \in {0, PollMs} : SpawnLoop(d)
    \/ SpawnEnd
    \/ StopCall
    \/ \E d \in {PollMs, 2 * PollMs} : StopPoll(d)
    \/ StopReap
    \/ \E emptied \in BOOLEAN : MoveConstruct(emptied)
    \/ MoveAssignSelf
    \/ MoveAssignCall
    \/ \E emptied \in BOOLEAN : MoveAssignEnd(emptied)
    \/ ForceStopCall
    \/ ForceStopReap
    \/ DestructorCall
    \/ DestructorReturn

SpecOwner == InitOwner /\ [][NextOwner]_vars

(* C21: at most one Server object owns the process handle.  A move gives the  *)
(* target exactly what the source owned and leaves the source owning nothing, *)
(* and while the Server owns no process (it was moved from, or never owned    *)
(* one) none of its stop(), force_stop(), destructor or move assignment sends *)
(* a signal to the process.                                                   *)
C21_SingleOwner ==
    /\ [](~(server.process_ /\ scope.other.process_))
    /\ [][ ( /\ scope'.other # scope.other \/ server' # server
             /\ spawning.pc = spawning'.pc )
           => \/ /\ scope'.other.process_ = server.process_
                 /\ ~server'.process_
                 /\ server'.port_ = 0
                 /\ scope'.other.port_ = server.port_
              \/ /\ server'.process_ = scope.other.process_
                 /\ ~scope'.other.process_
                 /\ scope'.other.port_ = 0
                 /\ server'.port_ = scope.other.port_ ]_vars
    /\ [][ (~server.process_ /\ spawning.pc # "loop")
           => /\ process'.terminated = process.terminated
              /\ process'.killed = process.killed
              /\ stopping'.did = stopping.did ]_vars

\* the Server was moved into a second object while its process ran, and the
\* destructor of the moved-from Server has returned: the process still runs,
\* no signal was sent, and the second object owns it
C21_Witness ==
    /\ scope.life = "destroyed"
    /\ ~server.process_
    /\ scope.other.process_
    /\ scope.other.port_ = 51234
    /\ process.state = "running"
    /\ ~process.terminated
    /\ ~process.killed
    /\ stopping.did = <<>>
    /\ stopping.calls = 1

(* C22: the destructor of a Server that owns a running process stops it       *)
(* through stop(): it sends terminate() first, kills only a process that      *)
(* is still running after the grace window, and returns only when the process *)
(* has exited; a Server whose destructor has returned owns no running         *)
(* process.                                                                   *)
C22_DestructorStops ==
    /\ [](scope.life = "destroyed" => ~(server.process_ /\ IsRunning))
    /\ [][ (scope.life = "alive" /\ scope'.life \in {"destroying", "destroyed"}
               /\ server.process_ /\ IsRunning)
           => /\ scope'.life = "destroying"
              /\ process'.terminated
              /\ ~process'.killed
              /\ stopping'.pc = "poll"
              /\ stopping'.did = Append(stopping.did, "terminate")
           ]_vars
    /\ [][ (scope.life = "destroying" /\ process'.killed /\ ~process.killed)
           => (IsRunning /\ process.terminated /\ stopping.elapsed > GraceMs)
           ]_vars
    /\ [][ (scope.life = "destroying" /\ scope'.life = "destroyed")
           => /\ process.state = "exited"
              /\ stopping.did[Len(stopping.did)] = "wait" ]_vars

\* the destructor has returned after the process ignored terminate() for the
\* whole grace window and was killed
C22_Witness ==
    /\ scope.life = "destroyed"
    /\ server.process_
    /\ stopping.did = <<"terminate", "kill", "wait">>
    /\ stopping.calls = 1
    /\ process.state = "exited"
    /\ process.killed

-----------------------------------------------------------------------------
(* The lines of a byte string, as the wire format defines them *)

\* the position of the last line feed among the first n bytes of s, or 0
RECURSIVE LastLF(_, _)
LastLF(s, n) ==
    IF n = 0 THEN 0 ELSE IF s[n] = LF THEN n ELSE LastLF(s, n - 1)

\* a line without the carriage return that may end it
Body(raw) == IF raw # <<>> /\ raw[Len(raw)] = CR THEN PopBack(raw) ELSE raw

\* the complete (line-feed terminated) lines of s from pos on
RECURSIVE CompleteLines(_, _)
CompleteLines(s, pos) ==
    LET le == FindFrom(s, LF, pos)
    IN  IF le = 0 THEN <<>>
        ELSE <<Body(SubSeq(s, pos, le - 1))>> \o CompleteLines(s, le + 1)

\* whether s starts with the bytes of pre
StartsWith(s, pre) == Len(s) >= Len(pre) /\ SubSeq(s, 1, Len(pre)) = pre

\* the value of a line "<name>:<value>", one space after the colon skipped
ValueOf(line, name) ==
    LET start == IF Len(line) > Len(name) + 1 /\ line[Len(name) + 2] = " "
                 THEN Len(name) + 3 ELSE Len(name) + 2
    IN  SubstrFrom(line, start)

IsCommentLine(line) == StartsWith(line, <<":">>)

IsDataLine(line) == StartsWith(line, DATA \o <<":">>)

\* an integer in decimal notation: an optional sign and one or more digits
IsInteger(v) ==
    LET d == IF v # <<>> /\ v[1] \in {"+", "-"} THEN Tail(v) ELSE v
    IN  d # <<>> /\ \A i \in 1..Len(d) : d[i] \in Digits

IsInvalidRetryLine(line) ==
    StartsWith(line, RETRY \o <<":">>) /\ ~IsInteger(ValueOf(line, RETRY))

\* s from pos on without its complete lines of the given kind
RECURSIVE DropLines(_, _, _)
DropLines(s, pos, kind) ==
    LET le == FindFrom(s, LF, pos)
    IN  IF le = 0 THEN SubstrFrom(s, pos)
        ELSE LET body == Body(SubSeq(s, pos, le - 1))
                 drop == IF kind = "comment" THEN IsCommentLine(body)
                         ELSE IsInvalidRetryLine(body)
             IN  (IF drop THEN <<>> ELSE SubSeq(s, pos, le))
                   \o DropLines(s, le + 1, kind)

\* the values joined by single line feeds
RECURSIVE JoinLF(_)
JoinLF(vs) ==
    IF Len(vs) = 1 THEN vs[1] ELSE vs[1] \o <<LF>> \o JoinLF(Tail(vs))

\* the fields of the records emitted so far and of the pending record
FieldsSeen ==
    { emitted[i].event : i \in 1..Len(emitted) }
      \cup { emitted[i].data : i \in 1..Len(emitted) }
      \cup { emitted[i].id : i \in 1..Len(emitted) }
      \cup { current_event_.event, current_event_.data, current_event_.id }

(* C23: comment lines have no effect.  The records emitted and the pending    *)
(* record after any bytes are those of the same bytes with every complete     *)
(* line that begins with a colon removed, and no character of the comment     *)
(* (the inputs' only "c") is in any field of an emitted or pending record.    *)
C23_CommentsIgnored ==
    LET q == Feed(FreshParser, DropLines(SubSeq(input, 1, fed), 1, "comment"))
    IN  /\ emitted = q.emitted
        /\ current_event_ = q.current_event_
        /\ \A f \in FieldsSeen : \A i \in 1..Len(f) : f[i] # "c"

\* a comment between a data line and the blank line: the record has the data
C23_Witness ==
    /\ input = DATA \o <<":", "a", LF, ":", "c", LF, LF>>
    /\ fed = Len(input)
    /\ emitted = <<[EmptyEvent EXCEPT !.data = <<"a">>]>>
    /\ current_event_ = EmptyEvent

(* C24: when the whole input is k >= 1 data lines followed by a blank line,   *)
(* one record is emitted and its data is the k values, each possibly empty,   *)
(* joined by single line feeds, with no trailing line feed added.             *)
C24_DataJoined ==
    LET ls == CompleteLines(input, 1)
        k == Len(ls) - 1
    IN  ( /\ fed = Len(input)
          /\ input # <<>> /\ input[Len(input)] = LF
          /\ k >= 1
          /\ ls[k + 1] = <<>>
          /\ \A i \in 1..k : IsDataLine(ls[i]) )
        => emitted = << [EmptyEvent EXCEPT
                            !.data = JoinLF([i \in 1..k |-> ValueOf(ls[i], DATA)])] >>

(* C25: a record is emitted exactly when a blank line is processed while the  *)
(* pending record has data or an event type.  Byte by byte: the byte that     *)
(* ends a blank line emits the pending record (and resets it) if one of the   *)
(* two is set and otherwise changes neither the output nor the pending        *)
(* record; no other byte emits; every emitted record has data or an event     *)
(* type.                                                                      *)
C25_EmitOnBlankLine ==
    /\ [](\A i \in 1..Len(emitted) :
             emitted[i].data # <<>> \/ emitted[i].event # <<>>)
    /\ [][ fed' = fed + 1 =>
             LET blank == input[fed'] = LF /\ buffer_ \in {<<>>, <<CR>>}
                 set == current_event_.data # <<>> \/ current_event_.event # <<>>
             IN  IF blank /\ set
                 THEN /\ Len(emitted') = Len(emitted) + 1
                      /\ SubSeq(emitted', 1, Len(emitted)) = emitted
                      /\ emitted'[Len(emitted')].event = current_event_.event
                      /\ emitted'[Len(emitted')].id = current_event_.id
                      /\ emitted'[Len(emitted')].retry = current_event_.retry
                      /\ current_event_' = EmptyEvent
                 ELSE /\ emitted' = emitted
                      /\ blank => current_event_' = current_event_ ]_vars

\* a first blank line emitted nothing; the blank line after an event line
\* emitted a record that has an event type and no data
C25_Witness ==
    /\ input = <<LF>> \o EVENT \o <<":", " ", "e", LF, LF>>
    /\ fed = Len(input)
    /\ emitted = <<[EmptyEvent EXCEPT !.event = <<"e">>]>>

(* C26: no partial record.  The bytes after the last line feed are kept in    *)
(* buffer_ and contribute nothing: the records emitted and the pending record *)
(* are those of the input up to its last line feed, a chunk without a line    *)
(* feed changes neither, and no more records are emitted than blank lines     *)
(* were completed, so a pending record whose blank line has not arrived is    *)
(* not emitted.                                                               *)
C26_NoPartialRecord ==
    /\ [] LET p == SubSeq(input, 1, fed)
              k == LastLF(p, Len(p))
              q == Feed(FreshParser, SubSeq(p, 1, k))
              ls == CompleteLines(p, 1)
          IN  /\ buffer_ = SubSeq(p, k + 1, Len(p))
              /\ emitted = q.emitted
              /\ current_event_ = q.current_event_
              /\ Len(emitted) <= Cardinality({i \in 1..Len(ls) : ls[i] = <<>>})
    /\ [][ (\A i \in (fed + 1)..fed' : input[i] # LF) =>
              /\ emitted' = emitted
              /\ current_event_' = current_event_
              /\ buffer_' = buffer_ \o SubSeq(input, fed + 1, fed') ]_vars

\* the input ended in the middle of a line, with a record pending, and
\* nothing was emitted
C26_Witness ==
    /\ input = DATA \o <<":", "a", LF>> \o DATA \o <<":", "a">>
    /\ fed = Len(input)
    /\ buffer_ = DATA \o <<":", "a">>
    /\ current_event_.data = <<"a">>
    /\ emitted = <<>>

(* C29: a retry line whose value is not an integer has no effect.  The        *)
(* records emitted and the pending record after any bytes are those of the    *)
(* same bytes with every complete retry line whose value is not an integer    *)
(* removed.                                                                   *)
C29_InvalidRetryIgnored ==
    LET q == Feed(FreshParser, DropLines(SubSeq(input, 1, fed), 1, "invalid_retry"))
    IN  /\ emitted = q.emitted
        /\ current_event_ = q.current_event_

(* C27: the events next() returns are in the order in which their records     *)
(* arrived on the wire: the wire positions of the events returned so far,     *)
(* followed by those of the events still queued, are strictly increasing.     *)
C27_WireOrder ==
    LET q == delivered \o events
    IN  \A i, j \in 1..Len(q) : i < j => q[i].n < q[j].n

\* the first and the third record of the wire were returned, in this order;
\* the second produced no event
C27_Witness ==
    /\ Len(delivered) = 2
    /\ delivered[1].n = 1
    /\ delivered[2].n = 3
    /\ events = <<>>

(* C28: a record that fails to decode is dropped without effect.  The step of *)
(* on_record that handles it enqueues nothing, leaves closed and error as     *)
(* they are, notifies nobody, leaves the mutex free and the worker running    *)
(* (at its next record, or back in the read); and a record that decodes to an *)
(* event is enqueued when the stream is open, whatever was dropped before it. *)
C28_UndecodableDropped ==
    /\ [][ \A i \in Streams :
             ( /\ worker[i].pc = "on_event"
               /\ worker'[i] # worker[i]
               /\ ~closed
               /\ Head(worker[i].batch).type = "malformed" )
             => /\ events' = events
                /\ pushed' = pushed
                /\ delivered' = delivered
                /\ closed' = closed
                /\ error' = error
                /\ consumer' = consumer
                /\ mutex' = "free"
                /\ closeCalls' = closeCalls
                /\ errorCalls' = errorCalls
                /\ worker'[i].pc = IF Len(worker[i].batch) > 1 THEN "on_event"
                                   ELSE "get"
                /\ worker'[i].batch = Tail(worker[i].batch) ]_vars
    /\ [][ \A i \in Streams :
             ( /\ worker[i].pc = "on_event"
               /\ worker'[i] # worker[i]
               /\ ~closed
               /\ Head(worker[i].batch).type
                     \in {"server.connected", "message.part.updated"} )
             => events' = Append(events, Head(worker[i].batch)) ]_vars
    /\ [](\A k \in 1..Len(dropped) :
             \A j \in 1..Len(pushed) : pushed[j].n # dropped[k].n)

\* the first record of the wire failed to decode and was dropped; the second
\* one was enqueued and returned by next(), the stream still open
C28_Witness ==
    /\ dropped = <<[n |-> 1, why |-> "undecodable"]>>
    /\ delivered = <<Rec("server.connected", "", 2)>>
    /\ ~closed
    /\ mutex = "free"

(* C30: no lost wake-up in the handshake wait.  The caller is never blocked   *)
(* in wait_for while connected is already set: a worker that sets connected   *)
(* while the caller is in, or entering, the wait wakes it, so that it goes on *)
(* without waiting for the rest of the timeout.                               *)
C30_NoLostWakeup ==
    ~(caller.pc = "waiting" /\ connected)

(* C31: marking done and delivering are mutually exclusive.  Once done is set *)
(* no invocation of on_part and no invocation of on_error by the stream       *)
(* begins, whatever the worker had already checked.                           *)
C31_NoDeliveryOnceDone ==
    [][ done => (parts' = parts /\ userErrors'.stream = userErrors.stream) ]_vars

\* the next byte fed ends a blank line
EndsBlankLine == input[fed + 1] = LF /\ buffer_ \in {<<>>, <<CR>>}

(* C32, as the code has it: a blank line that emits a record resets the       *)
(* pending event, data, id and retry to their initial values; a blank line    *)
(* that emits nothing leaves the pending record as it is, so that an id or a  *)
(* retry value set in a block without data and event type carries over into   *)
(* the next block.  After any blank line the pending data and event type are  *)
(* empty.                                                                     *)
C32_ResetOnEmit ==
    [][ (fed' = fed + 1 /\ EndsBlankLine) =>
           /\ current_event_' = IF emitted' # emitted THEN EmptyEvent
                                ELSE current_event_
           /\ current_event_'.data = <<>>
           /\ current_event_'.event = <<>> ]_vars

\* the id of a block that emitted nothing is in the pending record of the
\* next block
C32_Witness ==
    /\ input = ID \o <<":", "1", LF, LF>> \o EVENT \o <<":", " ", "e", LF>>
    /\ fed = Len(input)
    /\ emitted = <<>>
    /\ current_event_ = [EmptyEvent EXCEPT !.event = <<"e">>, !.id = <<"1">>]

(* C32, as stated: after any blank line, whether or not it emitted a record,  *)
(* the pending event, data, id and retry are all back to their initial        *)
(* values.                                                                    *)
C32_ResetOnBlankLine ==
    [][ (fed' = fed + 1 /\ EndsBlankLine) => current_event_' = EmptyEvent ]_vars

-----------------------------------------------------------------------------
(* Specification of the parser on inputs with mixed line terminators: 1 to    *)
(* MaxLines lines, each ended by LF or by CR LF as it likes, with bodies that *)
(* hold no carriage return.                                                   *)

TerminatorBodies ==
    { <<>>,
      DATA \o <<":", "a">>,
      EVENT \o <<":", " ", "e">>,
      ID \o <<":", "1">> }

MixedInputs ==
    UNION { { Flatten([i \in 1..n |-> ls[i] \o ts[i]]) :
                ls \in [1..n -> TerminatorBodies], ts \in [1..n -> Terminators] } :
            n \in 1..MaxLines }

InitTerminators ==
    /\ input \in MixedInputs
    /\ fed = 0
    /\ buffer_ = <<>>
    /\ current_event_ = EmptyEvent
    /\ emitted = <<>>
    /\ splitMidLine = FALSE
    /\ TransportIdle
    /\ api = [pc |-> "idle"]
    /\ wire = <<>>
    /\ EventsUnused
    /\ SendUnused
    /\ ServerUnused

SpecTerminators == InitTerminators /\ [][NextParser]_vars

\* s from pos on with every CR LF replaced by LF
RECURSIVE ToLF(_, _)
ToLF(s, pos) ==
    IF pos > Len(s) THEN <<>>
    ELSE IF s[pos] = CR /\ pos < Len(s) /\ s[pos + 1] = LF THEN ToLF(s, pos + 1)
    ELSE <<s[pos]>> \o ToLF(s, pos + 1)

(* C33: line-terminator equivalence.  Whatever subset of the lines of an      *)
(* input ends with CR LF instead of LF, the records emitted and the pending   *)
(* record after any part of it are those of the same bytes with every CR LF   *)
(* replaced by LF.                                                            *)
C33_TerminatorEquivalence ==
    LET q == Feed(FreshParser, ToLF(SubSeq(input, 1, fed), 1))
    IN  /\ emitted = q.emitted
        /\ current_event_ = q.current_event_

\* a data line ended by CR LF, a blank line ended by LF and an event line
\* ended by CR LF: the record is emitted and the event type is pending
C33_Witness ==
    /\ input = DATA \o <<":", "a", CR, LF, LF>> \o EVENT \o <<":", " ", "e", CR, LF>>
    /\ fed = Len(input)
    /\ emitted = <<[EmptyEvent EXCEPT !.data = <<"a">>]>>
    /\ current_event_ = [EmptyEvent EXCEPT !.event = <<"e">>]

(* C34: on_error is invoked only for a connection that ended with a failure   *)
(* while no stop was requested, at most once per stream and before that       *)
(* stream's on_close; a stream whose read was ended by the stop flag never    *)
(* has on_error invoked.                                                      *)
C34_ErrorOnlyOnFailure ==
    /\ [][ \A i \in Streams :
             errorCalls'[i] # errorCalls[i] =>
                /\ errorCalls[i] = 0
                /\ errorCalls'[i] = 1
                /\ sse_running_
                /\ worker[i].result = "err"
                /\ worker[i].why = "failed"
                /\ closeCalls[i] = 0
                /\ closeCalls'[i] = 0 ]_vars
    /\ [](\A i \in Streams : worker[i].why = "stopped" => errorCalls[i] = 0)
    /\ [](\A i \in Streams :
             (worker[i].pc = "done" /\ errorCalls[i] = 1) => closeCalls[i] = 1)

\* the first stream was ended by a second start_sse and had no on_error; the
\* second failed and had on_error, then on_close
C34_Witness ==
    /\ nstreams = 2
    /\ worker[1].pc = "done"
    /\ worker[1].why = "stopped"
    /\ errorCalls[1] = 0
    /\ worker[2].pc = "done"
    /\ worker[2].why = "failed"
    /\ errorCalls[2] = 1
    /\ closeCalls[2] = 1

(* C35: when stop() or force_stop() returns, running() is false.  force_stop  *)
(* on a running process sends the kill at once and then only waits for the    *)
(* process to exit: it sends no terminate and lets no grace time pass.        *)
C35_StoppedAfterReturn ==
    /\ [][ ( \/ stopping.pc \in {"reap", "force_reap"} /\ stopping'.pc = "idle"
             \/ stopping'.calls > stopping.calls )
           => ~(server'.process_ /\ process'.state = "running") ]_vars
    /\ [][ (stopping.pc = "idle" /\ stopping'.pc = "force_reap") =>
              /\ process'.killed
              /\ process'.terminated = process.terminated
              /\ stopping'.did = Append(stopping.did, "kill")
              /\ stopping'.elapsed = stopping.elapsed ]_vars
    /\ [][ stopping.pc = "force_reap" =>
              /\ process'.terminated = process.terminated
              /\ stopping' # stopping =>
                    /\ stopping'.pc = "idle"
                    /\ process.state = "exited"
                    /\ stopping'.did = Append(stopping.did, "wait")
                    /\ stopping'.elapsed = stopping.elapsed ]_vars
    /\ [](stopping.pc = "idle" /\ ~Running => ~ENABLED (ForceStopCall /\ vars' # vars))

\* force_stop() has returned: the process was killed without a terminate and
\* has exited
C35_Witness ==
    /\ stopping.pc = "idle"
    /\ stopping.did = <<"kill", "wait">>
    /\ stopping.elapsed = 0
    /\ server.process_
    /\ process.state = "exited"
    /\ process.killed
    /\ ~process.terminated

(* C36: spawn returns a Server only after a line of the output matched a      *)
(* readiness rule and the process was found running after the loop; when the  *)
(* line matched rule (b) only (the requested port after a colon, with a       *)
(* keyword, and no announced URL) the Server has the requested port and the   *)
(* URL built from the requested hostname and port.                            *)
C36_ReturnsOnlyWhenReady ==
    /\ [](spawning.pc = "returned" =>
             /\ server.process_
             /\ spawning.matched \in 1..Len(OutputLine)
             /\ \/ UrlSearch(OutputLine[spawning.matched], 1) # <<>>
                \/ PortBindingLine(OutputLine[spawning.matched], opts.port)
             /\ (UrlSearch(OutputLine[spawning.matched], 1) = <<>>) =>
                   /\ server.port_ = opts.port
                   /\ server.hostname_ = Hostname
                   /\ server.url_ = <<"h", "t", "t", "p", ":", "/", "/">>
                                       \o Hostname \o <<":">> \o to_string(opts.port))
    /\ [][ (spawning.pc # "returned" /\ spawning'.pc = "returned") =>
              (process.state = "running" /\ spawning.matched # 0) ]_vars

\* spawn asked for port 4096 and returned on the line "server :4096 up"
C36_Witness ==
    /\ spawning.pc = "returned"
    /\ opts.port = 4096
    /\ spawning.matched = 5
    /\ server.port_ = 4096
    /\ server.process_

(* C37: a failed spawn leaves no running child behind.  Whenever spawn has    *)
(* ended with an exception, no Server owns the process, and the process has   *)
(* exited or has been sent the kill.                                          *)
C37_FailedSpawnLeavesNoChild ==
    spawning.pc = "thrown" =>
        /\ ~server.process_
        /\ process.state = "exited" \/ process.killed

\* some Server object owns the process
Owned == server.process_ \/ scope.other.process_

(* C38: move assignment onto a Server that owns a running process begins with *)
(* the stop() sequence on that process, and the handle of the target is given *)
(* up only when its process has exited: no running process loses its owner.   *)
(* A self-assignment changes neither Server, nor the process, nor sends       *)
(* anything.                                                                  *)
C38_AssignStopsFirst ==
    /\ [][ (scope.life = "alive" /\ scope'.life = "assigning" /\ Running) =>
              /\ process' = Terminate(process)
              /\ stopping'.pc = "poll"
              /\ stopping'.did = Append(stopping.did, "terminate")
              /\ server' = server ]_vars
    /\ [][ (scope.life = "assigning" /\ scope'.life # "assigning") =>
              /\ ~Running
              /\ server' = scope.other
              /\ ~scope'.other.process_ ]_vars
    /\ [][ (Owned /\ ~Owned') => process.state = "exited" ]_vars
    /\ [][ scope'.selfAssigns # scope.selfAssigns =>
              /\ server' = server
              /\ process' = process
              /\ stopping' = stopping
              /\ scope'.other = scope.other
              /\ scope'.life = scope.life ]_vars

\* an assignment onto the Server that had been self-assigned and owns the
\* process is inside its stop(): the process ignored the terminate, was
\* killed after the grace window and has exited, and the Server still has
\* its handle
C38_Witness ==
    /\ scope.life = "assigning"
    /\ scope.selfAssigns = 1
    /\ stopping.pc = "reap"
    /\ stopping.did = <<"terminate", "kill">>
    /\ server.process_
    /\ process.state = "exited"

(* C39: the caller's callbacks never run concurrently.  A step invokes at     *)
(* most one of them; on_part and the stream's on_error are invoked by the one *)
(* worker thread there is, while the calling thread is not in, and not yet    *)
(* past, its terminal callbacks; on_complete and the final on_error are       *)
(* invoked by the calling thread when stop_sse has returned and the worker    *)
(* has finished.                                                              *)
C39_CallbacksSerial ==
    [][ LET byWorker == parts' # parts \/ userErrors'.stream # userErrors.stream
            byCaller == completeCalls' # completeCalls
                           \/ userErrors'.unary # userErrors.unary
        IN  /\ ~(byWorker /\ byCaller)
            /\ ~(parts' # parts /\ userErrors'.stream # userErrors.stream)
            /\ byWorker =>
                  /\ Cardinality({i \in Streams : Alive(i)}) = 1
                  /\ \E i \in Streams : Alive(i) /\ worker'[i] # worker[i]
                  /\ caller.pc \notin {"terminal", "returned"}
                  /\ caller' = caller
            /\ byCaller =>
                  /\ caller.pc = "terminal"
                  /\ sse_thread_ = 0
                  /\ \A i \in Streams : ~Alive(i) /\ worker'[i] = worker[i] ]_vars

\* a part and a stream error were delivered by the worker, and on_complete by
\* the calling thread after them
C39_Witness ==
    /\ caller.pc = "returned"
    /\ Len(parts) = 1
    /\ userErrors.stream = 1
    /\ completeCalls = 1
    /\ worker[1].pc = "done"

(* C40: a record the worker dispatches once the EventStream is closed is      *)
(* discarded by on_record: whenever the worker holds a record for on_record   *)
(* and the stream is closed, on_record eventually returns having dropped it   *)
(* for that reason, and no step taken in a closed state makes the queue       *)
(* longer.                                                                    *)
C40_ClosedRecordDiscarded ==
    /\ [][ closed => Len(events') <= Len(events) ]_vars
    /\ \A i \in Streams :
          (closed /\ worker[i].pc = "on_event")
             ~> (\E k \in 1..Len(dropped) : dropped[k].why = "closed")

====
